---------------------------- MODULE Spec2Model ----------------------------
(***************************************************************************)
(* GoPercyFRP: the console (src/Server/main.go) and the agent              *)
(* (src/Client/main.go).  A line of the wire protocol is a sequence of     *)
(* one-character strings, a byte is a number in 0..255, and the Go string  *)
(* and base64 functions the code calls are operators that compute what     *)
(* the library computes.                                                   *)
(***************************************************************************)
EXTENDS Integers, Sequences, FiniteSets, TLC

(***************************************************************************)
(* Bounds of the model.                                                    *)
(***************************************************************************)
\* chunk lines the response reader handles within one File frame
MaxChunks == 3
\* bytes of a file after which no further chunk line is delivered
MaxFileBytes == 7
\* frames the response reader opens in one run
MaxFrames == 1
\* characters of screenshot text after which no further line is accumulated
MaxShotChars == 5
\* seconds the wall clock advances (screenshot names carry the second)
MaxClock == 1

\* "chunkCount%100 == 0": progress is shown every 100 chunks
ProgressEvery == 100

(***************************************************************************)
(* Go's strings package on sequences of characters.                        *)
(***************************************************************************)
SetMin(S) == CHOOSE x \in S : \A y \in S : x <= y

SetMax(S) == CHOOSE x \in S : \A y \in S : y <= x

\* the white space strings.TrimSpace removes that can occur in a line
Whitespace == {" ", "\t", "\r", "\n"}

TrimSpace(s) ==
    LET keep == {i \in 1..Len(s) : s[i] \notin Whitespace}
    IN  IF keep = {} THEN <<>> ELSE SubSeq(s, SetMin(keep), SetMax(keep))

\* strings.TrimRight(s, "\r\n")
TrimRightCRLF(s) ==
    LET keep == {i \in 1..Len(s) : s[i] \notin {"\r", "\n"}}
    IN  IF keep = {} THEN <<>> ELSE SubSeq(s, 1, SetMax(keep))

HasPrefix(s, p) == Len(s) >= Len(p) /\ SubSeq(s, 1, Len(p)) = p

HasSuffix(s, p) == Len(s) >= Len(p) /\ SubSeq(s, Len(s) - Len(p) + 1, Len(s)) = p

\* Go's s[from:], from counted from 0
SliceFrom(s, from) == SubSeq(s, from + 1, Len(s))

\* strings.Index(s, c) for a one-character c: counted from 0, -1 when absent
Index(s, c) ==
    LET at == {i \in 1..Len(s) : s[i] = c}
    IN  IF at = {} THEN -1 ELSE SetMin(at) - 1

\* strings.LastIndex(s, c)
LastIndex(s, c) ==
    LET at == {i \in 1..Len(s) : s[i] = c}
    IN  IF at = {} THEN -1 ELSE SetMax(at) - 1

\* strings.ReplaceAll(s, c, "") for the characters of drop
RemoveAll(s, drop) == SelectSeq(s, LAMBDA c : c \notin drop)

RECURSIVE SplitN(_, _, _)
\* strings.SplitN(s, sep, n) for a one-character sep and n >= 1
SplitN(s, sep, n) ==
    LET i == Index(s, sep)
    IN  IF n = 1 \/ i < 0 THEN <<s>>
        ELSE <<SubSeq(s, 1, i)>> \o SplitN(SliceFrom(s, i + 1), sep, n - 1)

\* strings.Split(s, sep): no limit on the number of parts
Split(s, sep) == SplitN(s, sep, Len(s) + 1)

\* strings.Repeat(c, n)
Repeat(c, n) == [i \in 1..n |-> c]

Digits == <<"0", "1", "2", "3", "4", "5", "6", "7", "8", "9">>

DigitSet == {Digits[i] : i \in 1..10}

DigitVal(c) == (CHOOSE i \in 1..10 : Digits[i] = c) - 1

RECURSIVE DigitsVal(_)
DigitsVal(s) ==
    IF s = <<>> THEN 0
    ELSE 10 * DigitsVal(SubSeq(s, 1, Len(s) - 1)) + DigitVal(s[Len(s)])

\* strconv.ParseInt(s, 10, 64) and strconv.Atoi(s): an optional sign, then one
\* or more decimal digits (the model's numbers stay far below 2^63)
ParseInt(s) ==
    LET signed == s # <<>> /\ s[1] \in {"+", "-"}
        body == IF signed THEN Tail(s) ELSE s
    IN  IF body = <<>> \/ \E i \in 1..Len(body) : body[i] \notin DigitSet
        THEN [ok |-> FALSE, val |-> 0]
        ELSE [ok |-> TRUE,
              val |-> IF signed /\ s[1] = "-" THEN 0 - DigitsVal(body)
                      ELSE DigitsVal(body)]

RECURSIVE Itoa(_)
\* fmt's %d of a number >= 0
Itoa(n) == IF n < 10 THEN <<Digits[n + 1]>> ELSE Itoa(n \div 10) \o <<Digits[(n % 10) + 1]>>

(***************************************************************************)
(* encoding/base64: StdEncoding and RawStdEncoding.                        *)
(***************************************************************************)
B64Chars ==
    <<"A", "B", "C", "D", "E", "F", "G", "H", "I", "J", "K", "L", "M",
      "N", "O", "P", "Q", "R", "S", "T", "U", "V", "W", "X", "Y", "Z",
      "a", "b", "c", "d", "e", "f", "g", "h", "i", "j", "k", "l", "m",
      "n", "o", "p", "q", "r", "s", "t", "u", "v", "w", "x", "y", "z",
      "0", "1", "2", "3", "4", "5", "6", "7", "8", "9", "+", "/">>

B64Set == {B64Chars[i] : i \in 1..64}

B64Index == [c \in B64Set |-> (CHOOSE i \in 1..64 : B64Chars[i] = c) - 1]

B64Val(c) == B64Index[c]

\* the bytes one quantum of n digits (n in 2..4) carries: n - 1 bytes; the
\* bits left over in the last digit are dropped (the encodings are not Strict)
QuantumBytes(q) ==
    LET d(i) == IF i <= Len(q) THEN B64Val(q[i]) ELSE 0
        v == d(1) * 262144 + d(2) * 4096 + d(3) * 64 + d(4)
        all == <<v \div 65536, (v \div 256) % 256, v % 256>>
    IN  SubSeq(all, 1, Len(q) - 1)

RECURSIVE QuantaBytes(_)
\* a run of digits, four at a time; the last quantum may have 2 or 3
QuantaBytes(s) ==
    IF s = <<>> THEN <<>>
    ELSE IF Len(s) <= 4 THEN QuantumBytes(s)
    ELSE QuantumBytes(SubSeq(s, 1, 4)) \o QuantaBytes(SliceFrom(s, 4))

AllDigits(s) == \A i \in 1..Len(s) : s[i] \in B64Set

\* base64.StdEncoding.DecodeString: \r and \n are skipped; the input must end
\* on a quantum, '=' may only end the last quantum ("xx==" or "xxx=")
StdDecode(src) ==
    LET s == RemoveAll(src, {"\r", "\n"})
        n == Len(s)
        pads == IF n >= 2 /\ s[n] = "=" /\ s[n - 1] = "=" THEN 2
                ELSE IF n >= 1 /\ s[n] = "=" THEN 1 ELSE 0
        digits == SubSeq(s, 1, n - pads)
    IN  IF n % 4 = 0 /\ AllDigits(digits)
        THEN [ok |-> TRUE, bytes |-> QuantaBytes(digits)]
        ELSE [ok |-> FALSE, bytes |-> <<>>]

\* base64.RawStdEncoding.DecodeString: no padding character at all; the last
\* quantum may have 2 or 3 digits, never 1
RawStdDecode(src) ==
    LET s == RemoveAll(src, {"\r", "\n"})
    IN  IF AllDigits(s) /\ Len(s) % 4 # 1
        THEN [ok |-> TRUE, bytes |-> QuantaBytes(s)]
        ELSE [ok |-> FALSE, bytes |-> <<>>]

RECURSIVE StdEncode(_)
\* base64.StdEncoding.EncodeToString
StdEncode(b) ==
    LET n == Len(b)
        x(i) == IF i <= n THEN b[i] ELSE 0
        v == x(1) * 65536 + x(2) * 256 + x(3)
        c1 == B64Chars[(v \div 262144) + 1]
        c2 == B64Chars[((v \div 4096) % 64) + 1]
        c3 == B64Chars[((v \div 64) % 64) + 1]
        c4 == B64Chars[(v % 64) + 1]
    IN  IF n = 0 THEN <<>>
        ELSE IF n = 1 THEN <<c1, c2, "=", "=">>
        ELSE IF n = 2 THEN <<c1, c2, c3, "=">>
        ELSE <<c1, c2, c3, c4>> \o StdEncode(SliceFrom(b, 3))

(***************************************************************************)
(* The wire markers (src/Server/main.go and src/Client/main.go use the    *)
(* same literals).                                                         *)
(***************************************************************************)
FileStartPrefix ==
    <<"F", "I", "L", "E", "_", "T", "R", "A", "N", "S", "F", "E", "R", "_",
      "S", "T", "A", "R", "T", ":">>

FileEndMarker ==
    <<"F", "I", "L", "E", "_", "T", "R", "A", "N", "S", "F", "E", "R", "_",
      "E", "N", "D">>

ChunkPrefix == <<"C", "H", "U", "N", "K", ":">>

ShotStartPrefix ==
    <<"S", "C", "R", "E", "E", "N", "S", "H", "O", "T", "_", "S", "T", "A",
      "R", "T", ":">>

ShotEndMarker ==
    <<"S", "C", "R", "E", "E", "N", "S", "H", "O", "T", "_", "E", "N", "D">>

EndMarker == <<"-", "-", "-", "E", "N", "D", "-", "-", "-">>

ErrorPrefix == <<"E", "R", "R", "O", "R", ":">>

(***************************************************************************)
(* The chunk decoding of readClientResponse.                               *)
(***************************************************************************)
\* PadTo4 without the padding: the payload is decoded as it arrived
PadTo4None(s) == s

\* "if len(base64Data)%4 != 0 { base64Data += strings.Repeat("=", padding) }"
PadTo4(s) == IF Len(s) % 4 # 0 THEN s \o Repeat("=", 4 - (Len(s) % 4)) ELSE s

\* the three colon positions of a line that starts with "CHUNK:"
ChunkColons(response) ==
    LET firstColon == Index(response, ":")
        secondColon == Index(SliceFrom(response, firstColon + 1), ":") + firstColon + 1
        thirdColon == Index(SliceFrom(response, secondColon + 1), ":") + secondColon + 1
    IN  <<firstColon, secondColon, thirdColon>>

ChunkHeaderOk(response) ==
    LET c == ChunkColons(response)
    IN  c[1] >= 0 /\ c[2] > c[1] /\ c[3] > c[2]

\* a headered chunk: the payload after the third colon, cleaned and padded,
\* decoded with StdEncoding and, when that fails, with RawStdEncoding
HeaderedDecode(response) ==
    LET c == ChunkColons(response)
        base64Data == PadTo4(RemoveAll(TrimSpace(SliceFrom(response, c[3] + 1)),
                                       {"\r", "\n"}))
        std == StdDecode(base64Data)
    IN  IF std.ok THEN std ELSE RawStdDecode(base64Data)

\* a chunk without header: the whole line, padded, decoded with StdEncoding
LegacyDecode(response) == StdDecode(PadTo4(TrimSpace(response)))

\* what a non-blank line that is not the end marker yields in ReceivingFile:
\* ok and the decoded bytes, or not ok (the line counts one error)
ChunkDecode(response) ==
    IF HasPrefix(response, ChunkPrefix)
    THEN IF ChunkHeaderOk(response) THEN HeaderedDecode(response)
         ELSE [ok |-> FALSE, bytes |-> <<>>]
    ELSE LegacyDecode(response)

\* int(float64(totalBytes) / float64(expectedFileSize) * 100), computed on
\* integers
Progress(total, expected) == (total * 100) \div expected

(***************************************************************************)
(* The names saveFile and saveScreenshot write to.                         *)
(***************************************************************************)
\* filepath.Ext: from the last dot of the last path element; empty without one
Ext(path) ==
    LET dot == LastIndex(path, ".")
        sep == LastIndex(path, "/")
    IN  IF dot >= 0 /\ dot > sep THEN SliceFrom(path, dot) ELSE <<>>

\* strings.TrimSuffix
TrimSuffix(s, suffix) ==
    IF HasSuffix(s, suffix) THEN SubSeq(s, 1, Len(s) - Len(suffix)) ELSE s

\* fmt.Sprintf("%s_%d%s", name, counter, ext)
SuffixedName(originalName, counter) ==
    LET ext == Ext(originalName)
        name == TrimSuffix(originalName, ext)
    IN  name \o <<"_">> \o Itoa(counter) \o ext

\* the loop of saveFile without its os.Stat check
FreeNameNoStat(fileName, originalName, counter, existing) == fileName

RECURSIVE FreeName(_, _, _, _)
\* the loop of saveFile: the first of fileName, name_1.ext, name_2.ext, ...
\* that os.Stat reports as not existing
FreeName(fileName, originalName, counter, existing) ==
    IF fileName \notin existing THEN fileName
    ELSE FreeName(SuffixedName(originalName, counter), originalName,
                  counter + 1, existing)

ZipSuffixes ==
    {<<".", z, i, p>> : z \in {"z", "Z"}, i \in {"i", "I"}, p \in {"p", "P"}}

\* strings.HasSuffix(strings.ToLower(fileName), ".zip")
IsZipName(name) == \E z \in ZipSuffixes : HasSuffix(name, z)

\* time.Now().Format("20060102_150405"): the model's clock counts the seconds
\* of one minute
TimeStamp(t) ==
    <<"2", "0", "2", "5", "1", "2", "0", "6", "_", "1", "5", "0", "4">>
        \o (IF t < 10 THEN <<"0">> ELSE <<>>) \o Itoa(t)

ScreenshotName(t) ==
    <<"s", "c", "r", "e", "e", "n", "s", "h", "o", "t", "_">>
        \o TimeStamp(t) \o <<".", "p", "n", "g">>

\* the 8 bytes every PNG stream starts with
PNGSignature == <<137, 80, 78, 71, 13, 10, 26, 10>>

\* png.Decode succeeds: image bodies are cut down to the signature, which
\* png.Decode checks first
PngDecodes(bytes) == HasPrefix(bytes, PNGSignature)

\* addPadding
addPadding(data) ==
    LET padding == Len(data) % 4
    IN  IF padding > 0 THEN data \o Repeat("=", 4 - padding) ELSE data

(***************************************************************************)
(* State.                                                                  *)
(***************************************************************************)
VARIABLES
    \* the locals of readClientResponse
    isReceivingScreenshot, screenshotData, expectedSize,
    isReceivingFile, fileData, expectedFileSize, fileName,
    totalBytes, lastProgress, chunkCount, errorCount,
    \* where readClientResponse is: "read" (in ReadString, past the shutdown
    \* check at the top of its loop) or "returned"
    rdPc,
    \* the console's file system (name -> content) and its clock
    disk, now,
    \* what the handling of the last line logged (log.Printf) and printed
    \* (fmt.Print), and the call of saveFile or saveScreenshot it made
    logged, printed, lastSave,
    \* the calls of saveFile so far
    saveCalls,
    \* handleClient: the command queue, where its loop is ("loop" or
    \* "returned"), the closes of shutdownChan and of exitChan executed so
    \* far, whether once.Do has run, the commands written to the connection,
    \* and whether the deferred conn.Close() has run
    commandChan, hcPc, shutdownCloses, exitCloses, onceDone, connOut,
    connClosed,
    \* where the operator-input task is ("reading" or "returned"), the lines
    \* the operator has typed so far, and the commands dropped at a full queue
    stdinPc, typed, dropped,
    \* the agent: the queue of handleServerCommands and whether it is closed,
    \* the error channel, where readServerCommands ("reading" or "returned")
    \* and handleServerCommands ("loop" or "returned") are, the lines each
    \* processCommand goroutine has still to write, the lines written to the
    \* connection with the goroutine that wrote each, and the commands received
    agentCommandChan, agentChanClosed, errorChan, rscPc, hscPc, procs, wire,
    received,
    \* history: the chunk lines handled since the last file-start marker, the
    \* well-formed File frame in progress, the frames opened so far, and for
    \* each queued and each written command the frame it was entered during
    \* (0: none)
    chunkLog, wf, frameNo, chanFrame, outFrame,
    \* the connection from the agent to the console: the characters written
    \* and not yet returned by ReadString; and the history of the lines
    \* ReadString has returned, as readClientResponse classified them
    stream, classified,
    \* the console's process: the connections main has accepted, each with
    \* the command queue of its handleClient, where that handleClient is
    \* ("loop" or "returned"), where its operator-input task is ("reading" or
    \* "returned") and the lines that task has read; and where the process is
    \* ("running", "exited" by os.Exit, or "panicked")
    conns, serverPc

demuxVars ==
    <<isReceivingScreenshot, screenshotData, expectedSize, isReceivingFile,
      fileData, expectedFileSize, fileName, totalBytes, lastProgress,
      chunkCount, errorCount>>

fsVars == <<disk, now, lastSave, saveCalls>>

readerVars == <<demuxVars, rdPc, fsVars, logged, printed>>

consoleVars ==
    <<commandChan, hcPc, shutdownCloses, exitCloses, onceDone, connOut,
      connClosed, stdinPc, typed, dropped, chanFrame, outFrame>>

agentVars ==
    <<agentCommandChan, agentChanClosed, errorChan, rscPc, hscPc, procs, wire,
      received>>

historyVars == <<chunkLog, wf, frameNo>>

streamVars == <<stream, classified>>

mainVars == <<conns, serverPc>>

vars == <<readerVars, consoleVars, historyVars, agentVars, streamVars, mainVars>>

\* a printed item: a tag, and the text it carries
Out(tag, text) == [tag |-> tag, text |-> text]

NoSave ==
    [fn |-> "none", name |-> <<>>, expected |-> 0, data |-> <<>>,
     actual |-> 0, dest |-> <<>>, result |-> "none"]

\* what the file system does to a save: os.Create fails, file.Write fails, or
\* both succeed
IoOutcomes == {"ok", "createFails", "writeFails"}

(***************************************************************************)
(* saveFile and saveScreenshot: what a call does to the file system d, and *)
(* what it logs and prints.                                                *)
(***************************************************************************)
Effect(d, log, out, save, result) ==
    [disk |-> d, logged |-> log, printed |-> out,
     save |-> [save EXCEPT !.result = result]]

\* the size warning of saveFile
SizeWarning(decoded, expected) ==
    IF Len(decoded) # expected
    THEN IF expected - Len(decoded) > 0 THEN <<"FileIncomplete">>
         ELSE <<"FileLarger">>
    ELSE <<>>

\* the destination saveFile picks
Destination(name, d) == FreeName(name, name, 1, DOMAIN d)

\* saveFile returning at a size mismatch instead of only warning
saveFileStrict(decoded, name, expected, actual, io, d) ==
    LET warn == SizeWarning(decoded, expected)
        dest == Destination(name, d)
        call == [fn |-> "saveFile", name |-> name, expected |-> expected,
                 data |-> decoded, actual |-> actual, dest |-> dest,
                 result |-> "none"]
    IN  IF warn # <<>>
        THEN Effect(d, warn, <<>>, call, "rejected")
        ELSE IF io = "createFails" \/ dest = <<>>
        THEN Effect(d, warn \o <<"CreateFailed">>, <<>>, call, "createFailed")
        ELSE IF io = "writeFails"
        THEN Effect((dest :> <<>>) @@ d, warn \o <<"WriteFailed">>, <<>>, call,
                    "writeFailed")
        ELSE Effect((dest :> decoded) @@ d, warn,
                    (IF IsZipName(dest) THEN <<Out("zipCheck", dest)>> ELSE <<>>)
                        \o <<Out("fileSaved", dest)>>,
                    call, "saved")

\* saveFile(&fileData, fileName, expectedFileSize, totalBytes) on the file
\* system d; os.Create of the empty name fails
saveFile(decoded, name, expected, actual, io, d) ==
    LET warn == SizeWarning(decoded, expected)
        dest == Destination(name, d)
        call == [fn |-> "saveFile", name |-> name, expected |-> expected,
                 data |-> decoded, actual |-> actual, dest |-> dest,
                 result |-> "none"]
    IN  IF io = "createFails" \/ dest = <<>>
        THEN Effect(d, warn \o <<"CreateFailed">>, <<>>, call, "createFailed")
        ELSE IF io = "writeFails"
        THEN Effect((dest :> <<>>) @@ d, warn \o <<"WriteFailed">>, <<>>, call,
                    "writeFailed")
        ELSE Effect((dest :> decoded) @@ d, warn,
                    (IF IsZipName(dest) THEN <<Out("zipCheck", dest)>> ELSE <<>>)
                        \o <<Out("fileSaved", dest)>>,
                    call, "saved")

\* the decoding at the head of saveScreenshot: as it is, then padded
ScreenshotDecode(data) ==
    LET trimmed == TrimSpace(data)
        first == StdDecode(trimmed)
    IN  IF first.ok THEN first ELSE StdDecode(addPadding(trimmed))

\* saveScreenshot(screenshotData.String(), expectedSize), called at second t
saveScreenshot(data, expected, io, t, d) ==
    LET first == StdDecode(TrimSpace(data))
        dec == ScreenshotDecode(data)
        retry == IF first.ok THEN <<>>
                 ELSE <<"ShotDecodeFailed", "ShotDataPreview">>
        warn == IF Len(dec.bytes) # expected THEN <<"ShotSizeMismatch">>
                ELSE <<>>
        filename == ScreenshotName(t)
        call == [fn |-> "saveScreenshot", name |-> filename,
                 expected |-> expected, data |-> dec.bytes,
                 actual |-> Len(dec.bytes), dest |-> filename,
                 result |-> "none"]
    IN  IF ~dec.ok
        THEN Effect(d, retry \o <<"ShotDecodeFailedPadded">>, <<>>, call,
                    "decodeFailed")
        ELSE IF io = "createFails"
        THEN Effect(d, retry \o warn \o <<"ShotCreateFailed">>, <<>>, call,
                    "createFailed")
        ELSE IF ~PngDecodes(dec.bytes)
        THEN \* os.Create has run: the file exists, and is empty
             Effect((filename :> <<>>) @@ d, retry \o warn \o <<"PngDecodeFailed">>,
                    <<>>, call, "pngFailed")
        ELSE IF io = "writeFails"
        THEN Effect((filename :> <<>>) @@ d, retry \o warn \o <<"ShotWriteFailed">>,
                    <<>>, call, "writeFailed")
        ELSE Effect((filename :> dec.bytes) @@ d, retry \o warn,
                    <<Out("shotSaved", filename)>>, call, "saved")

(***************************************************************************)
(* readClientResponse: the handling of one line, by the state it is in.    *)
(***************************************************************************)
\* "FILE_TRANSFER_START:" name ":" size, as the Idle state parses it
FileStartParse(response) ==
    LET parts == SplitN(response, ":", 3)
        size == IF Len(parts) = 3 THEN ParseInt(parts[3])
                ELSE [ok |-> FALSE, val |-> 0]
    IN  IF HasPrefix(response, FileStartPrefix) /\ Len(parts) = 3 /\ size.ok
        THEN [ok |-> TRUE, name |-> parts[2], size |-> size.val]
        ELSE [ok |-> FALSE, name |-> <<>>, size |-> 0]

\* "SCREENSHOT_START:" size, as the Idle state parses it
ShotStartParse(response) ==
    LET parts == Split(response, ":")
        size == IF Len(parts) = 2 THEN ParseInt(parts[2])
                ELSE [ok |-> FALSE, val |-> 0]
    IN  IF HasPrefix(response, ShotStartPrefix) /\ Len(parts) = 2 /\ size.ok
        THEN [ok |-> TRUE, size |-> size.val]
        ELSE [ok |-> FALSE, size |-> 0]

\* the file system, log and console after a save
Apply(e, t) ==
    /\ disk' = e.disk
    /\ logged' = e.logged
    /\ printed' = e.printed
    /\ lastSave' = e.save
    /\ now' = t

Quiet(log, out) ==
    /\ logged' = log
    /\ printed' = out
    /\ lastSave' = NoSave
    /\ UNCHANGED <<disk, now, saveCalls>>

\* FileEnd without the reset of errorCount
FileEndKeepsErrors(io) ==
    /\ Apply(saveFile(fileData, fileName, expectedFileSize, totalBytes, io, disk),
             now)
    /\ saveCalls' = saveCalls + 1
    /\ isReceivingFile' = FALSE
    /\ fileData' = <<>>
    /\ totalBytes' = 0
    /\ chunkCount' = 0
    /\ errorCount' = errorCount
    /\ lastProgress' = 0
    /\ UNCHANGED <<fileName, expectedFileSize, isReceivingScreenshot,
                   screenshotData, expectedSize>>

\* ReceivingFile, "FILE_TRANSFER_END": save, then reset
FileEnd(io) ==
    /\ Apply(saveFile(fileData, fileName, expectedFileSize, totalBytes, io, disk),
             now)
    /\ saveCalls' = saveCalls + 1
    /\ isReceivingFile' = FALSE
    /\ fileData' = <<>>
    /\ totalBytes' = 0
    /\ chunkCount' = 0
    /\ errorCount' = 0
    /\ lastProgress' = 0
    /\ UNCHANGED <<fileName, expectedFileSize, isReceivingScreenshot,
                   screenshotData, expectedSize>>

\* FileChunk giving up the frame at a chunk that fails to decode
FileChunkAbortsOnError(response) ==
    LET r == ChunkDecode(response)
        total == totalBytes + Len(r.bytes)
        progress == IF expectedFileSize > 0 THEN Progress(total, expectedFileSize)
                    ELSE 0
        show == /\ expectedFileSize > 0
                /\ \/ progress > lastProgress
                   \/ (chunkCount + 1) % ProgressEvery = 0
                   \/ progress = 100
    IN  /\ chunkCount' = chunkCount + 1
        /\ IF r.ok
           THEN /\ fileData' = fileData \o r.bytes
                /\ totalBytes' = total
                /\ lastProgress' = IF show THEN progress ELSE lastProgress
                /\ errorCount' = errorCount
                /\ Quiet(<<>>, IF show THEN <<Out("progress", fileName)>> ELSE <<>>)
           ELSE /\ errorCount' = errorCount + 1
                /\ Quiet(<<"ChunkFailed">>, <<>>)
                /\ fileData' = <<>>
                /\ totalBytes' = 0
                /\ UNCHANGED lastProgress
        /\ isReceivingFile' = r.ok
        /\ UNCHANGED <<fileName, expectedFileSize,
                       isReceivingScreenshot, screenshotData, expectedSize>>

\* FileChunk without "totalBytes += int64(n)"
FileChunkNoCount(response) ==
    LET r == ChunkDecode(response)
        total == totalBytes + Len(r.bytes)
        progress == IF expectedFileSize > 0 THEN Progress(total, expectedFileSize)
                    ELSE 0
        show == /\ expectedFileSize > 0
                /\ \/ progress > lastProgress
                   \/ (chunkCount + 1) % ProgressEvery = 0
                   \/ progress = 100
    IN  /\ chunkCount' = chunkCount + 1
        /\ IF r.ok
           THEN /\ fileData' = fileData \o r.bytes
                /\ totalBytes' = totalBytes
                /\ lastProgress' = IF show THEN progress ELSE lastProgress
                /\ errorCount' = errorCount
                /\ Quiet(<<>>, IF show THEN <<Out("progress", fileName)>> ELSE <<>>)
           ELSE /\ errorCount' = errorCount + 1
                /\ Quiet(<<"ChunkFailed">>, <<>>)
                /\ UNCHANGED <<fileData, totalBytes, lastProgress>>
        /\ UNCHANGED <<isReceivingFile, fileName, expectedFileSize,
                       isReceivingScreenshot, screenshotData, expectedSize>>

\* FileChunk emptying the buffer at a chunk that fails to decode
FileChunkDropsOnError(response) ==
    LET r == ChunkDecode(response)
        total == totalBytes + Len(r.bytes)
        progress == IF expectedFileSize > 0 THEN Progress(total, expectedFileSize)
                    ELSE 0
        show == /\ expectedFileSize > 0
                /\ \/ progress > lastProgress
                   \/ (chunkCount + 1) % ProgressEvery = 0
                   \/ progress = 100
    IN  /\ chunkCount' = chunkCount + 1
        /\ IF r.ok
           THEN /\ fileData' = fileData \o r.bytes
                /\ totalBytes' = total
                /\ lastProgress' = IF show THEN progress ELSE lastProgress
                /\ errorCount' = errorCount
                /\ Quiet(<<>>, IF show THEN <<Out("progress", fileName)>> ELSE <<>>)
           ELSE /\ errorCount' = errorCount + 1
                /\ Quiet(<<"ChunkFailed">>, <<>>)
                /\ fileData' = <<>>
                /\ totalBytes' = 0
                /\ UNCHANGED lastProgress
        /\ UNCHANGED <<isReceivingFile, fileName, expectedFileSize,
                       isReceivingScreenshot, screenshotData, expectedSize>>

\* ReceivingFile, a line that is neither the end marker nor blank: a chunk
FileChunk(response) ==
    LET r == ChunkDecode(response)
        total == totalBytes + Len(r.bytes)
        progress == IF expectedFileSize > 0 THEN Progress(total, expectedFileSize)
                    ELSE 0
        show == /\ expectedFileSize > 0
                /\ \/ progress > lastProgress
                   \/ (chunkCount + 1) % ProgressEvery = 0
                   \/ progress = 100
    IN  /\ chunkCount' = chunkCount + 1
        /\ IF r.ok
           THEN /\ fileData' = fileData \o r.bytes
                /\ totalBytes' = total
                /\ lastProgress' = IF show THEN progress ELSE lastProgress
                /\ errorCount' = errorCount
                /\ Quiet(<<>>, IF show THEN <<Out("progress", fileName)>> ELSE <<>>)
           ELSE /\ errorCount' = errorCount + 1
                /\ Quiet(<<"ChunkFailed">>, <<>>)
                /\ UNCHANGED <<fileData, totalBytes, lastProgress>>
        /\ UNCHANGED <<isReceivingFile, fileName, expectedFileSize,
                       isReceivingScreenshot, screenshotData, expectedSize>>

\* the branch "if isReceivingFile { ... continue }"
FileBranch(response, io) ==
    IF response = FileEndMarker THEN FileEnd(io)
    ELSE IF response = <<>> THEN Quiet(<<>>, <<>>) /\ UNCHANGED demuxVars
    ELSE FileChunk(response)

\* the branch "if isReceivingScreenshot { ... continue }"
ShotBranch(response, io, t) ==
    IF response = ShotEndMarker
    THEN /\ Apply(saveScreenshot(screenshotData, expectedSize, io, t, disk), t)
         /\ saveCalls' = saveCalls
         /\ isReceivingScreenshot' = FALSE
         /\ screenshotData' = <<>>
         /\ UNCHANGED <<expectedSize, isReceivingFile, fileData,
                        expectedFileSize, fileName, totalBytes, lastProgress,
                        chunkCount, errorCount>>
    ELSE /\ screenshotData' = screenshotData \o response
         /\ Quiet(<<>>, <<>>)
         /\ UNCHANGED <<isReceivingScreenshot, expectedSize, isReceivingFile,
                        fileData, expectedFileSize, fileName, totalBytes,
                        lastProgress, chunkCount, errorCount>>

\* Idle: the start markers, the end-of-response marker, text
IdleBranch(response) ==
    LET f == FileStartParse(response)
        s == ShotStartParse(response)
    IN  IF f.ok
        THEN /\ isReceivingFile' = TRUE
             /\ fileName' = f.name
             /\ expectedFileSize' = f.size
             /\ fileData' = <<>>
             /\ totalBytes' = 0
             /\ chunkCount' = 0
             /\ errorCount' = 0
             /\ lastProgress' = 0
             /\ Quiet(<<>>, <<Out("receivingFile", f.name)>>)
             /\ UNCHANGED <<isReceivingScreenshot, screenshotData, expectedSize>>
        ELSE IF s.ok
        THEN /\ isReceivingScreenshot' = TRUE
             /\ expectedSize' = s.size
             /\ screenshotData' = <<>>
             /\ Quiet(<<>>, <<Out("receivingScreenshot", <<>>)>>)
             /\ UNCHANGED <<isReceivingFile, fileData, expectedFileSize,
                            fileName, totalBytes, lastProgress, chunkCount,
                            errorCount>>
        ELSE /\ Quiet(<<>>, IF response = EndMarker
                            THEN <<Out("completed", <<>>)>>
                            ELSE <<Out("text", response)>>)
             /\ UNCHANGED demuxVars

\* HandleLine without the "continue" that ends the screenshot branch: a line
\* accumulated as screenshot text goes on to the Idle checks
HandleLineNoContinue(raw, io, t) ==
    LET response == TrimSpace(raw)
    IN  IF isReceivingFile THEN FileBranch(response, io)
        ELSE IF isReceivingScreenshot /\ response = ShotEndMarker
        THEN ShotBranch(response, io, t)
        ELSE IdleBranch(response)

\* HandleLine looking for the start markers before it looks at the state
HandleLineStartFirst(raw, io, t) ==
    LET response == TrimSpace(raw)
    IN  IF FileStartParse(response).ok \/ ShotStartParse(response).ok
        THEN IdleBranch(response)
        ELSE IF isReceivingFile THEN FileBranch(response, io)
        ELSE IF isReceivingScreenshot THEN ShotBranch(response, io, t)
        ELSE IdleBranch(response)

\* one line through the loop body: trimmed, then handled by the state
HandleLine(raw, io, t) ==
    LET response == TrimSpace(raw)
    IN  IF isReceivingFile THEN FileBranch(response, io)
        ELSE IF isReceivingScreenshot THEN ShotBranch(response, io, t)
        ELSE IdleBranch(response)

(***************************************************************************)
(* readClientResponse: the loop.                                           *)
(***************************************************************************)
\* the select at the top of the loop, reached when ReadString has returned a
\* line or a timeout: return once shutdownChan is closed, else read again
AfterSelect == IF shutdownCloses > 0 THEN "returned" ELSE "read"

\* the bounds of the model: a line that would grow a buffer, a counter or the
\* disk past them is not delivered
Fits(response) ==
    IF isReceivingFile
    THEN \/ response \in {FileEndMarker, <<>>}
         \/ chunkCount < MaxChunks /\ Len(fileData) < MaxFileBytes
    ELSE IF isReceivingScreenshot
    THEN response = ShotEndMarker \/ Len(screenshotData) < MaxShotChars
    ELSE (FileStartParse(response).ok \/ ShotStartParse(response).ok)
            => frameNo < MaxFrames

\* reader.ReadString returns a line
ReadLine(raw, io, t) ==
    /\ rdPc = "read"
    /\ Fits(TrimSpace(raw))
    /\ HandleLine(raw, io, t)
    /\ rdPc' = AfterSelect

\* reader.ReadString returns a timeout: "continue"
ReadTimeout ==
    /\ rdPc = "read"
    /\ rdPc' = AfterSelect
    /\ logged' = <<>>
    /\ printed' = IF isReceivingFile THEN <<Out("waiting", <<>>)>> ELSE <<>>
    /\ lastSave' = NoSave
    /\ UNCHANGED <<demuxVars, disk, now, saveCalls>>

\* reader.ReadString returns io.EOF or another error: "return"
ReadFail(eof) ==
    /\ rdPc = "read"
    /\ rdPc' = "returned"
    /\ logged' = IF eof THEN <<>> ELSE <<"ReadFailed">>
    /\ printed' = <<>>
    /\ lastSave' = NoSave
    /\ UNCHANGED <<demuxVars, disk, now, saveCalls>>

(***************************************************************************)
(* The agent's encoders of a File frame (sendFileToServer).                *)
(***************************************************************************)
\* fmt.Sprintf("FILE_TRANSFER_START:%s:%d\n", fileName, fileSize), without
\* the line break
FileHeaderLine(name, size) == FileStartPrefix \o name \o <<":">> \o Itoa(size)

\* ChunkLine without the length field: "CHUNK:" chunkNumber ":" encoded
ChunkLineNoLen(chunkNumber, segment) ==
    LET encoded == StdEncode(segment)
    IN  ChunkPrefix \o Itoa(chunkNumber) \o <<":">> \o encoded

\* "CHUNK:" chunkNumber ":" len(encoded) ":" encoded
ChunkLine(chunkNumber, segment) ==
    LET encoded == StdEncode(segment)
    IN  ChunkPrefix \o Itoa(chunkNumber) \o <<":">> \o Itoa(Len(encoded))
            \o <<":">> \o encoded

\* "SCREENSHOT_START:" len
ShotHeaderLine(size) == ShotStartPrefix \o Itoa(size)

(***************************************************************************)
(* The lines the response reader is fed in SpecDemux.                      *)
(***************************************************************************)
NameReport == <<"r", "e", "p", "o", "r", "t", ".", "t", "x", "t">>

NameReport1 == <<"r", "e", "p", "o", "r", "t", "_", "1", ".", "t", "x", "t">>

NameColon == <<"a", ":", "b">>

\* the lines of WireLines that decode carry the PNG signature or three zero
\* bytes
WireLines ==
    { FileHeaderLine(NameReport, 8),
      FileHeaderLine(NameColon, 8),
      ChunkLine(1, PNGSignature),
      \* the chunk above without the last character of its payload
      <<"C", "H", "U", "N", "K", ":", "1", ":", "1", "1", ":",
        "i", "V", "B", "O", "R", "w", "0", "K", "G", "g", "o">>,
      \* a chunk whose payload cannot be padded to a quantum
      <<"C", "H", "U", "N", "K", ":", "1", ":", "5", ":",
        "i", "V", "B", "O", "R">>,
      \* a chunk header with one colon
      <<"C", "H", "U", "N", "K", ":", "1">>,
      \* the agent's notice of a failed read
      ErrorPrefix \o <<"x">>,
      FileEndMarker,
      <<" ">>,
      <<" ", " ", "h", " ", "i", "\t">>,
      EndMarker,
      ShotHeaderLine(8),
      StdEncode(PNGSignature),
      \* base64 of three bytes that are no PNG
      StdEncode(<<0, 0, 0>>),
      ShotEndMarker }

\* the files on the console's disk when the connection starts
InitialDisks ==
    { <<>>,
      (NameReport :> <<1>>),
      (NameReport :> <<1>>) @@ (NameReport1 :> <<2>>) }

(***************************************************************************)
(* History of the lines handled (read by the properties only).             *)
(***************************************************************************)
\* the chunk lines since the last file-start marker: the segments of those
\* that decoded, in the order of arrival, and the number of those that did not
NoChunks == [segs |-> <<>>, failed |-> 0]

RECURSIVE Concat(_)
Concat(segs) == IF segs = <<>> THEN <<>> ELSE Head(segs) \o Concat(Tail(segs))

\* a file-start marker as section 6 of the specification writes it: the size
\* is what follows the last colon
WfStart(response) ==
    LET rest == SliceFrom(response, Len(FileStartPrefix))
        k == LastIndex(rest, ":")
        size == ParseInt(SliceFrom(rest, k + 1))
    IN  IF HasPrefix(response, FileStartPrefix) /\ k >= 1 /\ size.ok /\ size.val >= 0
        THEN [ok |-> TRUE, name |-> SubSeq(rest, 1, k), size |-> size.val]
        ELSE [ok |-> FALSE, name |-> <<>>, size |-> 0]

\* a decodable chunk line "CHUNK:<seq>:<encodedLen>:<encodedPayload>"
WfChunk(response) ==
    LET parts == Split(response, ":")
        dec == IF Len(parts) = 4 THEN StdDecode(parts[4])
               ELSE [ok |-> FALSE, bytes |-> <<>>]
    IN  IF /\ Len(parts) = 4
           /\ parts[1] \o <<":">> = ChunkPrefix
           /\ ParseInt(parts[2]).ok
           /\ ParseInt(parts[3]).ok
           /\ dec.ok
        THEN dec
        ELSE [ok |-> FALSE, bytes |-> <<>>]

WfNone ==
    [phase |-> "none", name |-> <<>>, size |-> 0, data |-> <<>>, chunks |-> 0,
     saves0 |-> 0]

\* the bound of the history: a well-formed frame has at most MaxChunks chunks
HistoryFits(response) ==
    (wf.phase = "open" /\ WfChunk(response).ok) =>
        (wf.chunks < MaxChunks /\ Len(wf.data) < MaxFileBytes)

\* the history after the reader has handled raw
History(raw) ==
    LET response == TrimSpace(raw)
        dec == ChunkDecode(response)
    IN  /\ chunkLog' =
              IF isReceivingFile
              THEN IF response = FileEndMarker \/ response = <<>> THEN chunkLog
                   ELSE IF dec.ok
                   THEN [chunkLog EXCEPT !.segs = Append(@, dec.bytes)]
                   ELSE [chunkLog EXCEPT !.failed = @ + 1]
              ELSE IF isReceivingFile' THEN NoChunks ELSE chunkLog
        /\ frameNo' = IF \/ ~isReceivingFile /\ isReceivingFile'
                         \/ ~isReceivingScreenshot /\ isReceivingScreenshot'
                      THEN frameNo + 1
                      ELSE frameNo
        /\ wf' =
              IF ~isReceivingFile /\ ~isReceivingScreenshot /\ WfStart(response).ok
              THEN [phase |-> "open", name |-> WfStart(response).name,
                    size |-> WfStart(response).size, data |-> <<>>,
                    chunks |-> 0, saves0 |-> saveCalls]
              ELSE IF wf.phase = "open" /\ WfChunk(response).ok
              THEN [wf EXCEPT !.data = @ \o WfChunk(response).bytes,
                              !.chunks = @ + 1]
              ELSE IF wf.phase = "open" /\ response = FileEndMarker
              THEN [wf EXCEPT !.phase = "done"]
              ELSE WfNone

(***************************************************************************)
(* SpecDemux: readClientResponse fed any lines, timeouts and read errors.  *)
(***************************************************************************)
ReaderInit ==
    /\ isReceivingScreenshot = FALSE
    /\ screenshotData = <<>>
    /\ expectedSize = 0
    /\ isReceivingFile = FALSE
    /\ fileData = <<>>
    /\ expectedFileSize = 0
    /\ fileName = <<>>
    /\ totalBytes = 0
    /\ lastProgress = 0
    /\ chunkCount = 0
    /\ errorCount = 0
    /\ rdPc = "read"
    /\ now = 0
    /\ logged = <<>>
    /\ printed = <<>>
    /\ lastSave = NoSave
    /\ saveCalls = 0
    /\ chunkLog = NoChunks
    /\ wf = WfNone
    /\ frameNo = 0

ConsoleInit ==
    /\ commandChan = <<>>
    /\ hcPc = "loop"
    /\ shutdownCloses = 0
    /\ exitCloses = 0
    /\ onceDone = FALSE
    /\ connOut = <<>>
    /\ connClosed = FALSE
    /\ stdinPc = "reading"
    /\ typed = 0
    /\ dropped = 0
    /\ chanFrame = <<>>
    /\ outFrame = <<>>

AgentInit ==
    /\ agentCommandChan = <<>>
    /\ agentChanClosed = FALSE
    /\ errorChan = <<>>
    /\ rscPc = "reading"
    /\ hscPc = "loop"
    /\ procs = <<>>
    /\ wire = <<>>
    /\ received = 0

StreamInit ==
    /\ stream = <<>>
    /\ classified = <<>>

\* main before its first Accept
MainInit ==
    /\ conns = <<>>
    /\ serverPc = "running"

\* whether handling response in the present state calls saveFile or
\* saveScreenshot: only then do the file system's answer and the clock count
Saves(response) ==
    \/ isReceivingFile /\ response = FileEndMarker
    \/ ~isReceivingFile /\ isReceivingScreenshot /\ response = ShotEndMarker

DemuxLine ==
    \E raw \in WireLines, io \in IoOutcomes, t \in now..MaxClock :
        /\ Saves(TrimSpace(raw)) \/ (io = "ok" /\ t = now)
        /\ isReceivingFile /\ TrimSpace(raw) = FileEndMarker => t = now
        /\ HistoryFits(TrimSpace(raw))
        /\ ReadLine(raw, io, t)
        /\ History(raw)
        /\ UNCHANGED <<consoleVars, agentVars, streamVars, mainVars>>

\* a timeout is no line: the history keeps what it has, but for a frame that
\* was done the step before
HistoryOfTimeout ==
    /\ wf' = IF wf.phase = "done" THEN WfNone ELSE wf
    /\ UNCHANGED <<chunkLog, frameNo>>

DemuxTimeout ==
    ReadTimeout /\ HistoryOfTimeout /\ UNCHANGED <<consoleVars, agentVars, streamVars, mainVars>>

InitDemux == ReaderInit /\ ConsoleInit /\ AgentInit /\ StreamInit /\ MainInit /\ disk \in InitialDisks

NextDemux == DemuxLine \/ DemuxTimeout

SpecDemux == InitDemux /\ [][NextDemux]_vars

(***************************************************************************)
(* Properties of the response reader, checked under SpecDemux.             *)
(***************************************************************************)
Idle == ~isReceivingFile /\ ~isReceivingScreenshot

\* C2: the reader is never reassembling a file and a screenshot at once: the
\* flags isReceivingFile and isReceivingScreenshot are never both set.
C2_OneFrameKind == ~(isReceivingFile /\ isReceivingScreenshot)

\* a file-start marker has arrived inside a screenshot frame, and was taken
\* for screenshot text
C2_Witness ==
    /\ isReceivingScreenshot
    /\ ~isReceivingFile
    /\ HasPrefix(screenshotData, FileStartPrefix)

\* the positions of the colons of s
ColonsAt(s) == {i \in 1..Len(s) : s[i] = ":"}

\* what follows the third colon of s, padded to whole quanta
PaddedPayload(s) ==
    LET third == CHOOSE i \in ColonsAt(s) :
                    Cardinality({j \in ColonsAt(s) : j < i}) = 2
        payload == SubSeq(s, third + 1, Len(s))
    IN  payload \o Repeat("=", (4 - (Len(payload) % 4)) % 4)

\* a chunk line that fails to decode: a "CHUNK:" line with fewer than three
\* colons or with a payload that both decoders reject, or a line without
\* header that the decoder rejects
FailsToDecode(response) ==
    /\ response \notin {<<>>, FileEndMarker}
    /\ IF HasPrefix(response, ChunkPrefix)
       THEN \/ Cardinality(ColonsAt(response)) < 3
            \/ /\ Cardinality(ColonsAt(response)) >= 3
               /\ ~StdDecode(PaddedPayload(response)).ok
               /\ ~RawStdDecode(PaddedPayload(response)).ok
       ELSE ~StdDecode(response \o Repeat("=", (4 - (Len(response) % 4)) % 4)).ok

\* C3: in ReceivingFile, a chunk line that fails to decode adds exactly one
\* to errorCount and leaves the mode, the accumulated bytes, totalBytes,
\* fileName and expectedFileSize as they were.
C3_FailedChunkSkipped ==
    [][isReceivingFile =>
          \A raw \in WireLines :
              (FailsToDecode(TrimSpace(raw)) /\ ReadLine(raw, "ok", now))
              => /\ errorCount' = errorCount + 1
                 /\ isReceivingFile'
                 /\ ~isReceivingScreenshot'
                 /\ UNCHANGED <<fileData, totalBytes, fileName,
                                expectedFileSize>>]_vars

\* a chunk has just failed in a frame that holds bytes of an earlier chunk
C3_Witness ==
    /\ isReceivingFile
    /\ logged = <<"ChunkFailed">>
    /\ errorCount >= 1
    /\ Len(fileData) > 0

\* C4: the buffer of a file frame is the concatenation, in the order of
\* arrival, of the segments that decoded, and nothing else; totalBytes is the
\* sum of their lengths; and that buffer is what saveFile is handed.
C4_BufferIsDecodedSegments ==
    /\ isReceivingFile =>
          /\ fileData = Concat(chunkLog.segs)
          /\ totalBytes = Len(Concat(chunkLog.segs))
          /\ errorCount = chunkLog.failed
    /\ lastSave.fn = "saveFile" =>
          /\ lastSave.data = Concat(chunkLog.segs)
          /\ lastSave.actual = Len(Concat(chunkLog.segs))

\* a file saved from two segments, with a failed chunk in the same frame
C4_Witness ==
    /\ lastSave.fn = "saveFile"
    /\ Len(chunkLog.segs) = 2
    /\ chunkLog.failed >= 1
    /\ lastSave.data = chunkLog.segs[1] \o chunkLog.segs[2]

\* C5: from Idle, a well-formed file frame (start marker, decodable chunk
\* lines, end marker) makes exactly one call of saveFile, with the frame's
\* name, size and the concatenation of its segments, and leaves the reader
\* Idle.
C5_FrameSavedOnce ==
    wf.phase = "done" =>
        /\ saveCalls = wf.saves0 + 1
        /\ lastSave.fn = "saveFile"
        /\ lastSave.name = wf.name
        /\ lastSave.expected = wf.size
        /\ lastSave.data = wf.data
        /\ Idle

\* C5, for the frames whose name holds no colon
C5_ColonFreeFrameSavedOnce ==
    (wf.phase = "done" /\ Index(wf.name, ":") = -1) =>
        /\ saveCalls = wf.saves0 + 1
        /\ lastSave.fn = "saveFile"
        /\ lastSave.name = wf.name
        /\ lastSave.expected = wf.size
        /\ lastSave.data = wf.data
        /\ Idle

\* the frame sendFileToServer makes of a file report.txt of 8 bytes has been
\* handled, and saved
C5_Witness ==
    /\ wf.phase = "done"
    /\ wf.name = NameReport
    /\ wf.chunks = 1
    /\ lastSave.result = "saved"
    /\ lastSave.expected = 8
    /\ lastSave.data = PNGSignature

\* the entries of the log that report a failure
ErrorTags ==
    {"ShotDecodeFailed", "ShotDecodeFailedPadded", "ShotCreateFailed",
     "PngDecodeFailed", "ShotWriteFailed", "CreateFailed", "WriteFailed",
     "ChunkFailed"}

\* C6: when a screenshot frame ends and its text decodes to bytes that are
\* no PNG, no file is created or modified, one error is reported, and the
\* reader is Idle with an empty screenshot buffer.
C6_BadPngLeavesDiskAlone ==
    [][( /\ ~isReceivingFile
         /\ isReceivingScreenshot
         /\ ~isReceivingScreenshot'
         /\ ScreenshotDecode(screenshotData).ok
         /\ ~PngDecodes(ScreenshotDecode(screenshotData).bytes) )
       => /\ disk' = disk
          /\ Cardinality({i \in 1..Len(logged') : logged'[i] \in ErrorTags}) = 1
          /\ Idle'
          /\ screenshotData' = <<>>]_vars

\* a screenshot frame whose text decoded to three bytes that are no PNG has
\* ended, with the file system accepting the create
C6_Witness ==
    /\ lastSave.fn = "saveScreenshot"
    /\ lastSave.data = <<0, 0, 0>>
    /\ lastSave.result = "pngFailed"

\* C7: a file frame whose reassembled size differs from the declared size is
\* reported and still saved whole, when the file system accepts the create
\* and the write.
C7_MismatchStillSaved ==
    [][\A io \in IoOutcomes :
          ( /\ isReceivingFile
            /\ Len(fileData) # expectedFileSize
            /\ fileName # <<>>
            /\ io = "ok"
            /\ ReadLine(FileEndMarker, io, now) )
          => /\ \E i \in 1..Len(logged') :
                    logged'[i] \in {"FileIncomplete", "FileLarger"}
             /\ \E n \in DOMAIN disk' \ DOMAIN disk : disk'[n] = fileData]_vars

\* a frame that declared 8 bytes has been saved with 11
C7_Witness ==
    /\ lastSave.fn = "saveFile"
    /\ lastSave.result = "saved"
    /\ lastSave.expected = 8
    /\ Len(lastSave.data) = 11
    /\ disk[lastSave.dest] = lastSave.data

\* base_k.ext, for a name base.ext
Numbered(name, k) ==
    LET dots == {i \in 1..Len(name) : name[i] = "."}
        cut == IF dots = {} THEN Len(name) + 1 ELSE SetMax(dots)
    IN  SubSeq(name, 1, cut - 1) \o <<"_">> \o Itoa(k) \o SubSeq(name, cut, Len(name))

\* the name a save of name goes to on a disk holding the names existing
FirstFree(name, existing) ==
    IF name \notin existing THEN name
    ELSE Numbered(name, SetMin({k \in 1..(Cardinality(existing) + 1) :
                                   Numbered(name, k) \notin existing}))

\* C8: saveFile never writes over an existing file: it writes to the name
\* itself when that is free, else to base_k.ext for the smallest k >= 1 that
\* is free, and every file that existed is left as it was.
C8_NoOverwrite ==
    [][\A io \in IoOutcomes :
          ( /\ isReceivingFile
            /\ fileName # <<>>
            /\ io # "createFails"
            /\ ReadLine(FileEndMarker, io, now) )
          => /\ DOMAIN disk' = DOMAIN disk \cup {FirstFree(fileName, DOMAIN disk)}
             /\ FirstFree(fileName, DOMAIN disk) \notin DOMAIN disk
             /\ \A n \in DOMAIN disk : disk'[n] = disk[n]]_vars

\* report.txt and report_1.txt existed, and the frame went to report_2.txt
C8_Witness ==
    /\ lastSave.fn = "saveFile"
    /\ lastSave.result = "saved"
    /\ lastSave.name = NameReport
    /\ lastSave.dest = Numbered(NameReport, 2)
    /\ {NameReport, NameReport1} \subseteq DOMAIN disk
    /\ disk[NameReport] = <<1>>
    /\ disk[NameReport1] = <<2>>

\* C14: within a File frame, totalBytes and the length of the buffer never
\* decrease from one handled line (or timeout) to the next.
C14_BytesNeverDecrease ==
    [][(isReceivingFile /\ isReceivingFile')
       => /\ totalBytes' >= totalBytes
          /\ Len(fileData') >= Len(fileData)
          /\ SubSeq(fileData', 1, Len(fileData)) = fileData]_vars

\* a frame in which the count has grown twice, with a failed chunk beside
C14_Witness ==
    /\ isReceivingFile
    /\ chunkCount = 3
    /\ errorCount = 1
    /\ totalBytes = 11

\* C18: in Idle, a line that is neither a recognised start marker nor the
\* end-of-response marker is printed as it was written, leading and trailing
\* spaces and tabs included, and nothing is stored.
C18_TextVerbatim ==
    [][Idle =>
          \A raw \in WireLines :
              ( /\ ~FileStartParse(raw).ok
                /\ ~ShotStartParse(raw).ok
                /\ raw # EndMarker
                /\ ReadLine(raw, "ok", now) )
              => /\ printed' = <<Out("text", raw)>>
                 /\ Idle'
                 /\ UNCHANGED <<fileData, screenshotData>>]_vars

\* a line of text has been printed in Idle
C18_Witness ==
    /\ Idle
    /\ Len(printed) = 1
    /\ printed[1].tag = "text"
    /\ printed[1].text = <<"h", " ", "i">>

\* a line that begins like a start marker
StartLike(response) ==
    HasPrefix(response, FileStartPrefix) \/ HasPrefix(response, ShotStartPrefix)

\* C19: a start marker received in ReceivingFile or ReceivingScreenshot
\* changes neither the mode nor the declared name and sizes and does not
\* reset a buffer: in ReceivingFile it is handled as a chunk line (which it
\* fails to be), in ReceivingScreenshot it is appended to the text.
C19_StartOnlyInIdle ==
    [][~Idle =>
          \A raw \in WireLines :
              (StartLike(TrimSpace(raw)) /\ ReadLine(raw, "ok", now))
              => /\ isReceivingFile' = isReceivingFile
                 /\ isReceivingScreenshot' = isReceivingScreenshot
                 /\ UNCHANGED <<fileName, expectedFileSize, expectedSize>>
                 /\ IF isReceivingFile
                    THEN /\ chunkCount' = chunkCount + 1
                         /\ errorCount' = errorCount + 1
                         /\ UNCHANGED <<fileData, totalBytes, screenshotData>>
                    ELSE /\ screenshotData' = screenshotData \o TrimSpace(raw)
                         /\ UNCHANGED <<fileData, totalBytes>>]_vars

\* a screenshot-start marker has arrived inside a screenshot frame and was
\* appended to its text
C19_Witness ==
    /\ isReceivingScreenshot
    /\ HasPrefix(screenshotData, ShotStartPrefix)
    /\ expectedSize = 8


\* C22: whenever the reader is Idle, the file buffer and the screenshot
\* buffer are empty and totalBytes, chunkCount, errorCount and lastProgress
\* are zero: nothing of a finished frame carries over.
C22_IdleIsClean ==
    Idle => /\ fileData = <<>>
            /\ screenshotData = <<>>
            /\ totalBytes = 0
            /\ chunkCount = 0
            /\ errorCount = 0
            /\ lastProgress = 0

\* the reader is Idle again after a File frame whose chunks decoded in part
\* and failed in part
C22_Witness ==
    /\ Idle
    /\ saveCalls = 1
    /\ chunkLog.segs # <<>>
    /\ chunkLog.failed > 0


\* C23: every file-start marker sendFileToServer can write, the name with a
\* colon included, takes an Idle reader to ReceivingFile with the marker's
\* name and size.
C23_StartMarkerRecognised ==
    [][Idle => \A name \in {NameReport, NameColon} :
          ReadLine(FileHeaderLine(name, 8), "ok", now)
          => /\ isReceivingFile'
             /\ fileName' = name
             /\ expectedFileSize' = 8]_vars

\* the start marker of a:b was printed as text, the reader stayed Idle, and
\* the chunk line that followed it is printed as text too
C23_Witness ==
    /\ Idle
    /\ wf.phase = "open"
    /\ wf.name = NameColon
    /\ printed = <<Out("text", ChunkLine(1, PNGSignature))>>

(***************************************************************************)
(* handleClient and the operator-input task.                               *)
(***************************************************************************)
\* make(chan string, 10)
CommandChanCap == 10

\* the lines the operator types in SpecConsole, at most
MaxTyped == 2

Exit == <<"e", "x", "i", "t">>

Help == <<"h", "e", "l", "p">>

\* the frame a command is entered during: the number of the File frame the
\* reader is in, or 0
FrameNow == IF isReceivingFile THEN frameNo ELSE 0

\* TrySend with a queue that takes one command more than its capacity
TrySendOverCap(command) ==
    IF Len(commandChan) <= CommandChanCap
    THEN /\ commandChan' = Append(commandChan, command)
         /\ chanFrame' = Append(chanFrame, FrameNow)
         /\ UNCHANGED dropped
    ELSE /\ dropped' = dropped + 1
         /\ UNCHANGED <<commandChan, chanFrame>>

\* "select { case commandChan <- command: default: ... dropping command }";
\* dropped counts the warnings logged
TrySend(command) ==
    IF Len(commandChan) < CommandChanCap
    THEN /\ commandChan' = Append(commandChan, command)
         /\ chanFrame' = Append(chanFrame, FrameNow)
         /\ UNCHANGED dropped
    ELSE /\ dropped' = dropped + 1
         /\ UNCHANGED <<commandChan, chanFrame>>

\* readCommandsFromStdin, readCommandsSimple: a line is read
StdinLine(line) ==
    LET command == TrimSpace(line)
    IN  /\ stdinPc = "reading"
        /\ typed' = typed + 1
        /\ IF command = <<>> \/ command = Help
           THEN UNCHANGED <<commandChan, chanFrame, dropped>>
           ELSE TrySend(command)
        /\ UNCHANGED <<hcPc, shutdownCloses, exitCloses, onceDone, connOut,
                       connClosed, stdinPc, outFrame>>

\* readCommandsFromStdin, readCommandsSimple: the end of the input. The queue
\* is offered "exit" without blocking, and nothing is logged when it is full
StdinEOF ==
    /\ stdinPc = "reading"
    /\ stdinPc' = "returned"
    /\ IF Len(commandChan) < CommandChanCap
       THEN /\ commandChan' = Append(commandChan, Exit)
            /\ chanFrame' = Append(chanFrame, FrameNow)
       ELSE UNCHANGED <<commandChan, chanFrame>>
    /\ UNCHANGED <<hcPc, shutdownCloses, exitCloses, onceDone, connOut,
                   connClosed, typed, dropped, outFrame>>

\* handleClient closing shutdownChan with neither once.Do nor a return
CloseAndGoOn ==
    /\ shutdownCloses' = shutdownCloses + 1
    /\ onceDone' = TRUE
    /\ UNCHANGED <<hcPc, connClosed>>

\* "once.Do(func() { close(shutdownChan) })", then "return" and with it the
\* deferred conn.Close()
CloseAndReturn ==
    /\ shutdownCloses' = IF onceDone THEN shutdownCloses ELSE shutdownCloses + 1
    /\ onceDone' = TRUE
    /\ hcPc' = "returned"
    /\ connClosed' = TRUE

\* HandleCommand holding a command back while a File frame is being received
HandleCommandAfterFrame(written) ==
    LET command == Head(commandChan)
    IN  /\ commandChan # <<>>
        /\ ~isReceivingFile
        /\ commandChan' = Tail(commandChan)
        /\ chanFrame' = Tail(chanFrame)
        /\ connOut' = IF command # <<>> /\ written THEN Append(connOut, command)
                      ELSE connOut
        /\ outFrame' = IF command # <<>> /\ written
                       THEN Append(outFrame, Head(chanFrame))
                       ELSE outFrame
        /\ IF command = <<>>
           THEN UNCHANGED <<hcPc, shutdownCloses, exitCloses, onceDone, connClosed>>
           ELSE IF command = Exit
           THEN CloseAndReturn /\ exitCloses' = exitCloses + 1
           ELSE IF written
           THEN UNCHANGED <<hcPc, shutdownCloses, exitCloses, onceDone, connClosed>>
           ELSE CloseAndReturn /\ UNCHANGED exitCloses

\* handleClient, "case command := <-commandChan"; written tells whether
\* conn.Write succeeds
HandleCommand(written) ==
    LET command == Head(commandChan)
    IN  /\ commandChan # <<>>
        /\ commandChan' = Tail(commandChan)
        /\ chanFrame' = Tail(chanFrame)
        /\ connOut' = IF command # <<>> /\ written THEN Append(connOut, command)
                      ELSE connOut
        /\ outFrame' = IF command # <<>> /\ written
                       THEN Append(outFrame, Head(chanFrame))
                       ELSE outFrame
        /\ IF command = <<>>
           THEN UNCHANGED <<hcPc, shutdownCloses, exitCloses, onceDone, connClosed>>
           ELSE IF command = Exit
           THEN CloseAndReturn /\ exitCloses' = exitCloses + 1
           ELSE IF written
           THEN UNCHANGED <<hcPc, shutdownCloses, exitCloses, onceDone, connClosed>>
           ELSE CloseAndReturn /\ UNCHANGED exitCloses

\* handleClient, "case <-shutdownChan"
HandleShutdown ==
    /\ shutdownCloses > 0
    /\ hcPc' = "returned"
    /\ connClosed' = TRUE
    /\ UNCHANGED <<commandChan, chanFrame, connOut, outFrame, shutdownCloses,
                   exitCloses, onceDone>>

\* one turn of the select of handleClient
HandleClientSelect(case, written) ==
    /\ hcPc = "loop"
    /\ IF case = "command" THEN HandleCommand(written) ELSE HandleShutdown
    /\ UNCHANGED <<stdinPc, typed, dropped>>

(***************************************************************************)
(* SpecConsole: the three tasks of one connection.                         *)
(***************************************************************************)
TypedLines ==
    { <<"c", "m", "d", " ", "x">>,
      <<" ", "e", "x", "i", "t">>,
      Help,
      <<" ">> }

\* the lines the agent answers with in SpecConsole: a File frame
ConsoleLines ==
    { FileHeaderLine(NameReport, 8),
      ChunkLine(1, PNGSignature),
      FileEndMarker }

ConsoleStdinLine ==
    \E line \in TypedLines :
        /\ typed < MaxTyped
        /\ StdinLine(line)
        /\ UNCHANGED <<readerVars, historyVars, agentVars, streamVars, mainVars>>

ConsoleStdinEOF == StdinEOF /\ UNCHANGED <<readerVars, historyVars, agentVars, streamVars, mainVars>>

ConsoleSelect ==
    \E case \in {"command", "shutdown"}, written \in BOOLEAN :
        /\ HandleClientSelect(case, written)
        /\ UNCHANGED <<readerVars, historyVars, agentVars, streamVars, mainVars>>

\* the agent of SpecConsole sends its lines in the order of a frame: the start
\* marker to an Idle reader, chunks and the end marker after it
ConsoleLine ==
    \E raw \in ConsoleLines :
        /\ isReceivingFile = ~HasPrefix(raw, FileStartPrefix)
        /\ HistoryFits(TrimSpace(raw))
        /\ ReadLine(raw, "ok", now)
        /\ History(raw)
        /\ UNCHANGED <<consoleVars, agentVars, streamVars, mainVars>>

ConsoleTimeout ==
    ReadTimeout /\ HistoryOfTimeout /\ UNCHANGED <<consoleVars, agentVars, streamVars, mainVars>>

ConsoleReadFail ==
    \E eof \in BOOLEAN :
        /\ ReadFail(eof)
        /\ HistoryOfTimeout
        /\ UNCHANGED <<consoleVars, agentVars, streamVars, mainVars>>

\* the goroutine of main, "<-exitChan; listener.Close(); os.Exit(0)": the
\* process ends, and with it the tasks that had not returned
ServerExit ==
    /\ exitCloses > 0
    /\ rdPc # "exited" \/ stdinPc # "exited"
    /\ rdPc' = "exited"
    /\ stdinPc' = "exited"
    /\ connClosed' = TRUE
    /\ UNCHANGED <<demuxVars, fsVars, logged, printed, commandChan, hcPc,
                   shutdownCloses, exitCloses, onceDone, connOut, typed, dropped,
                   chanFrame, outFrame, historyVars, agentVars, streamVars, mainVars>>

InitConsole == ReaderInit /\ ConsoleInit /\ AgentInit /\ StreamInit /\ MainInit /\ disk = <<>>

\* ReadString returns without a line: SetReadDeadline gives it 30 seconds
ReaderStep == ConsoleTimeout \/ ConsoleReadFail

NextConsole ==
    \/ ConsoleStdinLine
    \/ ConsoleStdinEOF
    \/ ConsoleSelect
    \/ ConsoleLine
    \/ ConsoleTimeout
    \/ ConsoleReadFail
    \/ ServerExit

SpecConsole == InitConsole /\ [][NextConsole]_vars

\* the scheduling the program can count on: a goroutine that can run does
\* (the select of handleClient with a command queued, main's goroutine once
\* exitChan is closed), and a ReadString that gets no line returns within its
\* deadline of 30 seconds. Nothing makes the operator type.
SpecConsoleFair ==
    /\ SpecConsole
    /\ WF_vars(ConsoleSelect)
    /\ WF_vars(ReaderStep)
    /\ WF_vars(ServerExit)

\* C9: a command the operator enters while the reader is in a File frame is
\* written to the connection only after that frame has ended: no written
\* command was entered during the frame the reader is still in.
C9_CommandWaitsForFrame ==
    \A i \in 1..Len(connOut) :
        outFrame[i] # 0 => ~(isReceivingFile /\ frameNo = outFrame[i])

\* C9, as the code has it: a queued command is written as soon as handleClient
\* takes it from the queue, whatever the reader is in the middle of: with
\* handleClient in its loop and a command queued, the write is enabled, also
\* while a File frame is being received.
C9_DispatchNotDeferred ==
    (hcPc = "loop" /\ commandChan # <<>>) => ENABLED ConsoleSelect

\* a command entered during a File frame has been written, and the reader is
\* still in that frame
C9_Witness ==
    /\ isReceivingFile
    /\ \E i \in 1..Len(connOut) : outFrame[i] = frameNo

\* C10: shutdownChan is closed at most once, whatever the order of the exit
\* command, the failed writes and the return of the reader.
C10_ShutdownClosedOnce == shutdownCloses <= 1

\* handleClient has returned on a failed write, having closed shutdownChan,
\* with a further command in its queue
C10_Witness ==
    /\ shutdownCloses = 1
    /\ exitCloses = 0
    /\ hcPc = "returned"
    /\ commandChan # <<>>


\* C11: once shutdownChan is closed, each of the three tasks of the connection
\* (readClientResponse, readCommandsFromStdin, the loop of handleClient)
\* eventually stops and returns.
C11_TasksStopAfterShutdown ==
    (shutdownCloses > 0) ~> (rdPc # "read" /\ hcPc # "loop" /\ stdinPc # "reading")

\* the two tasks that do look at shutdownChan
C11_ReaderAndLoopStop ==
    (shutdownCloses > 0) ~> (rdPc # "read" /\ hcPc # "loop")

\* a write has failed, shutdownChan is closed, handleClient and the reader
\* have returned, and the operator-input task is still reading the console
\* with commands in a queue nobody takes from
C11_Witness ==
    /\ shutdownCloses = 1
    /\ exitCloses = 0
    /\ hcPc = "returned"
    /\ rdPc = "returned"
    /\ stdinPc = "reading"
    /\ typed = MaxTyped
    /\ commandChan # <<>>

\* C17: after readClientResponse has returned on a read error or the end of
\* the stream, handleClient returns and closes the connection without further
\* operator input: while it is still in its loop it has a step to take.
C17_ReadFailureReachesOwner ==
    (rdPc = "returned" /\ shutdownCloses = 0 /\ hcPc = "loop")
        => ENABLED ConsoleSelect

\* the reader has returned on a read failure, the queue is empty, and
\* handleClient waits in its select with the connection open
C17_Witness ==
    /\ rdPc = "returned"
    /\ shutdownCloses = 0
    /\ hcPc = "loop"
    /\ commandChan = <<>>
    /\ ~connClosed


(***************************************************************************)
(* SpecQueue: the operator types faster than handleClient dispatches.      *)
(***************************************************************************)
\* the lines the operator types in SpecQueue, at most
MaxQueueTyped == 12

QueueLines ==
    { <<"c", "m", "d", " ", "x">>,
      <<" ", "p", "s", " ", "y", " ">>,
      <<" ">> }

QueueStdinLine ==
    \E line \in QueueLines :
        /\ typed < MaxQueueTyped
        /\ StdinLine(line)
        /\ UNCHANGED <<readerVars, historyVars, agentVars, streamVars, mainVars>>

QueueSelect ==
    \E case \in {"command", "shutdown"}, written \in BOOLEAN :
        /\ HandleClientSelect(case, written)
        /\ UNCHANGED <<readerVars, historyVars, agentVars, streamVars, mainVars>>

InitQueue == ReaderInit /\ ConsoleInit /\ AgentInit /\ StreamInit /\ MainInit /\ disk = <<>>

NextQueue == QueueStdinLine \/ QueueSelect

SpecQueue == InitQueue /\ [][NextQueue]_vars

\* C12: a line the operator enters is always taken (the input task is never
\* blocked by the queue), the queue never holds more than CommandChanCap
\* commands, a command that meets a full queue is dropped with a warning and
\* the queue stays as it was, a command that meets room is appended, and
\* handleClient takes the commands from the head of the queue: they are
\* dispatched in the order they were enqueued.
C12_BoundedLossyFifo ==
    [][/\ Len(commandChan') <= CommandChanCap
       /\ (stdinPc = "reading" /\ typed < MaxQueueTyped) => ENABLED QueueStdinLine
       /\ \A line \in QueueLines :
            (TrimSpace(line) \notin {<<>>, Help} /\ StdinLine(line))
            => IF Len(commandChan) = CommandChanCap
               THEN commandChan' = commandChan /\ dropped' = dropped + 1
               ELSE /\ commandChan' = Append(commandChan, TrimSpace(line))
                    /\ dropped' = dropped
       /\ connOut' # connOut
            => /\ connOut' = Append(connOut, Head(commandChan))
               /\ commandChan' = Tail(commandChan)]_vars

\* a command has met a full queue and was dropped, another has been
\* dispatched, and handleClient is still taking commands
C12_Witness ==
    /\ dropped = 1
    /\ Len(commandChan) = CommandChanCap
    /\ connOut = <<<<"c", "m", "d", " ", "x">>>>
    /\ commandChan[1] = <<"p", "s", " ", "y">>
    /\ hcPc = "loop"



(***************************************************************************)
(* SpecExit: the console's process with several connections. main starts   *)
(* one handleClient for each accepted connection, each with a command      *)
(* queue and an operator-input task of its own; exitChan is one for the    *)
(* process.                                                                *)
(***************************************************************************)
\* the connections main accepts in SpecExit, at most
MaxConns == 2

\* the lines each operator-input task reads in SpecExit, at most
MaxExitTyped == 2

ExitLines ==
    { Exit,
      <<"c", "m", "d", " ", "x">> }

\* main: "conn, err := listener.Accept(); go handleClient(conn)"
ExitAccept ==
    /\ serverPc = "running"
    /\ Len(conns) < MaxConns
    /\ conns' = Append(conns, [commandChan |-> <<>>, hcPc |-> "loop",
                               stdinPc |-> "reading", typed |-> 0])
    /\ UNCHANGED <<serverPc, readerVars, consoleVars, historyVars, agentVars,
                   streamVars>>

\* the operator-input task of connection c reads a line and offers the
\* command to its queue without blocking
ExitStdinLine ==
    \E c \in 1..Len(conns), line \in ExitLines :
        LET command == TrimSpace(line)
        IN  /\ serverPc = "running"
            /\ conns[c].stdinPc = "reading"
            /\ conns[c].typed < MaxExitTyped
            /\ conns' = [conns EXCEPT
                   ![c].typed = @ + 1,
                   ![c].commandChan =
                       IF Len(@) < CommandChanCap THEN Append(@, command) ELSE @]
            /\ UNCHANGED <<serverPc, readerVars, consoleVars, historyVars,
                           agentVars, streamVars>>

\* the console input ends: the task of connection c offers "exit" and returns
ExitStdinEOF ==
    \E c \in 1..Len(conns) :
        /\ serverPc = "running"
        /\ conns[c].stdinPc = "reading"
        /\ conns' = [conns EXCEPT
               ![c].stdinPc = "returned",
               ![c].commandChan =
                   IF Len(@) < CommandChanCap THEN Append(@, Exit) ELSE @]
        /\ UNCHANGED <<serverPc, readerVars, consoleVars, historyVars, agentVars,
                       streamVars>>

\* handleClient of connection c, "case command := <-commandChan": on "exit"
\* it runs close(exitChan), which panics when exitChan is closed already; on
\* another command it writes it and returns when the write fails
ExitSelect ==
    \E c \in 1..Len(conns), written \in BOOLEAN :
        LET command == Head(conns[c].commandChan)
        IN  /\ serverPc = "running"
            /\ conns[c].hcPc = "loop"
            /\ conns[c].commandChan # <<>>
            /\ conns' = [conns EXCEPT
                   ![c].commandChan = Tail(@),
                   ![c].hcPc = IF command = Exit \/ ~written THEN "returned" ELSE @]
            /\ exitCloses' = IF command = Exit THEN exitCloses + 1 ELSE exitCloses
            /\ serverPc' = IF command = Exit /\ exitCloses > 0 THEN "panicked"
                           ELSE serverPc
            /\ UNCHANGED <<readerVars, commandChan, hcPc, shutdownCloses, onceDone,
                           connOut, connClosed, stdinPc, typed, dropped, chanFrame,
                           outFrame, historyVars, agentVars, streamVars>>

\* the goroutine of main, "<-exitChan; listener.Close(); os.Exit(0)"
ExitProcess ==
    /\ serverPc = "running"
    /\ exitCloses > 0
    /\ serverPc' = "exited"
    /\ UNCHANGED <<conns, readerVars, consoleVars, historyVars, agentVars,
                   streamVars>>

InitExit ==
    ReaderInit /\ ConsoleInit /\ AgentInit /\ StreamInit /\ MainInit /\ disk = <<>>

NextExit ==
    ExitAccept \/ ExitStdinLine \/ ExitStdinEOF \/ ExitSelect \/ ExitProcess

SpecExit == InitExit /\ [][NextExit]_vars

\* C24: exitChan is closed at most once, whatever the number of connections
\* and the order of their exit commands: no second close(exitChan) is ever
\* executed.
C24_ExitClosedOnce == exitCloses <= 1

\* two handleClient have taken "exit" before os.Exit ran: the second
\* close(exitChan) has panicked
C24_Witness ==
    /\ exitCloses = 2
    /\ serverPc = "panicked"
    /\ Len(conns) = 2
    /\ conns[1].hcPc = "returned"
    /\ conns[2].hcPc = "returned"

(***************************************************************************)
(* SpecStream: the connection as a stream of characters. The agent writes  *)
(* lines; ReadString returns a line once its line break has arrived, and a *)
(* timeout with the characters that have arrived when the deadline passes. *)
(***************************************************************************)
\* the lines the agent writes in SpecStream, at most
MaxSent == 2

StreamLines ==
    { <<"o", "k">>,
      FileHeaderLine(NameReport, 8),
      ChunkLine(1, PNGSignature),
      FileEndMarker }

\* the agent's conn.Write of one line and its line break
StreamWrite ==
    \E line \in StreamLines :
        /\ Len(wire) < MaxSent
        /\ stream' = stream \o line \o <<"\n">>
        /\ wire' = Append(wire, [by |-> 0, lines |-> <<line>>])
        /\ UNCHANGED <<readerVars, consoleVars, historyVars, agentCommandChan,
                       agentChanClosed, errorChan, rscPc, hscPc, procs, received,
                       classified, mainVars>>

\* the characters of the stream before its first line break
BeforeBreak ==
    IF Index(stream, "\n") >= 0 THEN Index(stream, "\n") ELSE Len(stream)

\* reader.ReadString('\n') returns the line up to the first line break, which
\* has arrived; the line is handled
StreamReadLine ==
    LET raw == SubSeq(stream, 1, BeforeBreak)
    IN  /\ Index(stream, "\n") >= 0
        /\ HistoryFits(TrimSpace(raw))
        /\ ReadLine(raw, "ok", now)
        /\ History(raw)
        /\ stream' = SliceFrom(stream, BeforeBreak + 1)
        /\ classified' = Append(classified, TrimSpace(raw))
        /\ UNCHANGED <<consoleVars, agentVars, mainVars>>

\* the deadline passes with k characters of the line arrived and its line
\* break not: ReadString returns these characters with the timeout error
\* ("it returns the data read before the error and the error itself"), and
\* "continue" drops them
StreamTimeout(k) ==
    /\ k \in 0..BeforeBreak
    /\ ReadTimeout
    /\ HistoryOfTimeout
    /\ stream' = SliceFrom(stream, k)
    /\ UNCHANGED <<classified, consoleVars, agentVars, mainVars>>

StreamDeadline == \E k \in 0..Len(stream) : StreamTimeout(k)

InitStream == ReaderInit /\ ConsoleInit /\ AgentInit /\ StreamInit /\ MainInit /\ disk = <<>>

NextStream == StreamWrite \/ StreamReadLine \/ StreamDeadline

SpecStream == InitStream /\ [][NextStream]_vars

\* the lines the agent has written, as TrimSpace leaves them
SentLines == [i \in 1..Len(wire) |-> TrimSpace(wire[i].lines[1])]

\* the first half of C13: a timeout leaves the mode, the buffers and the
\* counters as they were, and the reader reads on
C13_TimeoutKeepsState ==
    [][StreamDeadline => (UNCHANGED demuxVars /\ rdPc' = "read")]_vars

\* C13: a read timeout is transparent: it leaves the mode, the buffers and the
\* counters unchanged and the reader reads on, and wherever timeouts fall, also
\* after part of a line has arrived, the lines readClientResponse classifies
\* are the lines the agent wrote: no character is lost and no line is split.
C13_TimeoutTransparent ==
    [][/\ StreamDeadline => (UNCHANGED demuxVars /\ rdPc' = "read")
       /\ Len(classified') <= Len(wire')
       /\ \A i \in 1..Len(classified') : classified'[i] = SentLines'[i]]_vars

\* the agent wrote "ok", a timeout fell after the "o", and the reader has
\* classified the line "k"
C13_Witness ==
    /\ SentLines = <<<<"o", "k">>>>
    /\ classified = <<<<"k">>>>
    /\ stream = <<>>

(***************************************************************************)
(* The agent: readServerCommands, handleServerCommands and the goroutines  *)
(* of processCommand. A goroutine's work is the sequence of its conn.Write *)
(* calls, each call the lines it carries.                                  *)
(***************************************************************************)
\* make(chan string, 100)
AgentChanCap == 100

\* make([]byte, 32768)
ReadBufferBytes == 32768

\* chunkSize := 1024
ShotChunkChars == 1024

\* the commands the agent receives in SpecAgent, at most
MaxCommands == 2

\* the files of the agent's host: path -> content
AgentFiles == (<<"f">> :> PNGSignature)

\* filepath.Base of a path without trailing separator
Base(path) == SliceFrom(path, LastIndex(path, "/") + 1)

\* strings.TrimPrefix
TrimPrefix(s, prefix) == IF HasPrefix(s, prefix) THEN SliceFrom(s, Len(prefix)) ELSE s

\* sendTextResponse, sendResponse: one write for each line that is not
\* empty, then one for the end marker
TextWrites(lines) ==
    LET kept == SelectSeq(lines, LAMBDA l : l # <<>>)
    IN  [k \in 1..Len(kept) |-> <<kept[k]>>] \o <<<<EndMarker>>>>

RECURSIVE ChunkWrites(_, _)
\* the loop of sendFileToServer: file.Read fills the buffer, and each filling
\* goes out as one chunk line
ChunkWrites(content, chunkNumber) ==
    IF content = <<>> THEN <<>>
    ELSE LET n == IF Len(content) < ReadBufferBytes THEN Len(content)
                  ELSE ReadBufferBytes
         IN  <<<<ChunkLine(chunkNumber, SubSeq(content, 1, n))>>>>
                 \o ChunkWrites(SliceFrom(content, n), chunkNumber + 1)

\* sendFileToServer(conn, filePath); readFails tells whether the first
\* file.Read fails
sendFileToServer(filePath, readFails) ==
    IF filePath \notin DOMAIN AgentFiles
    THEN TextWrites(<<<<"F", "i", "l", "e", " ", "n", "o", "t", " ", "f", "o",
                        "u", "n", "d", ":", " ">> \o filePath>>)
    ELSE <<<<FileHeaderLine(Base(filePath), Len(AgentFiles[filePath]))>>>>
            \o (IF readFails
                THEN \* "ERROR:%s\n" of a message that ends in a line break
                     <<<<ErrorPrefix \o <<"x">>, <<>>>>>>
                ELSE ChunkWrites(AgentFiles[filePath], 1) \o <<<<FileEndMarker>>>>)

RECURSIVE ShotWrites(_)
\* the loop of captureScreenAndSend over the encoded image
ShotWrites(encoded) ==
    IF encoded = <<>> THEN <<>>
    ELSE LET n == IF Len(encoded) < ShotChunkChars THEN Len(encoded)
                  ELSE ShotChunkChars
         IN  <<<<SubSeq(encoded, 1, n)>>>> \o ShotWrites(SliceFrom(encoded, n))

\* captureScreenAndSend(conn), of a screen whose PNG encoding is png
captureScreenAndSend(png) ==
    <<<<ShotHeaderLine(Len(png))>>>> \o ShotWrites(StdEncode(png))
        \o <<<<ShotEndMarker, EndMarker>>>>

CaptureScreen ==
    <<"c", "m", "d", " ", "c", "a", "p", "t", "u", "r", "e", " ", "s", "c",
      "r", "e", "e", "n">>

\* processCommand(conn, message): the writes it makes when none fails. The
\* output of an executed command is the line "ok"
processCommand(message, readFails) ==
    IF message = Help
    THEN TextWrites(<<<<"A", "v", "a", "i", "l", "a", "b", "l", "e", " ", "c",
                        "o", "m", "m", "a", "n", "d", "s", ":">>>>)
    ELSE IF message = Exit
    THEN TextWrites(<<<<"C", "l", "i", "e", "n", "t", " ", "i", "s", " ", "d",
                        "i", "s", "c", "o", "n", "n", "e", "c", "t", "i", "n",
                        "g", ".", ".", ".">>>>)
    ELSE IF HasPrefix(message, <<"s", "e", "n", "d", " ">>)
    THEN sendFileToServer(TrimSpace(TrimPrefix(message, <<"s", "e", "n", "d", " ">>)),
                          readFails)
    ELSE IF message = CaptureScreen
    THEN captureScreenAndSend(PNGSignature)
    ELSE IF HasPrefix(message, <<"c", "m", "d", " ">>)
            \/ HasPrefix(message, <<"p", "s", " ">>)
    THEN TextWrites(<<<<"o", "k">>>>)
    ELSE TextWrites(<<<<"U", "n", "k", "n", "o", "w", "n", " ", "c", "o", "m",
                        "m", "a", "n", "d", " ", "f", "o", "r", "m", "a", "t",
                        ".", " ", "P", "l", "e", "a", "s", "e", " ", "u", "s",
                        "e", " ", "'", "c", "m", "d", " ", "<", "c", "o", "m",
                        "m", "a", "n", "d", ">", "'", " ", "o", "r", " ", "'",
                        "p", "s", " ", "<", "c", "o", "m", "m", "a", "n", "d",
                        ">", "'">>,
                      <<"T", "y", "p", "e", " ", "'", "h", "e", "l", "p", "'",
                        " ", "f", "o", "r", " ", "m", "o", "r", "e", " ", "i",
                        "n", "f", "o", "r", "m", "a", "t", "i", "o", "n",
                        ".">>>>)

\* readServerCommands: a line is read
RscMessage(line) ==
    LET message == TrimRightCRLF(line)
    IN  /\ rscPc = "reading"
        /\ received' = received + 1
        /\ agentCommandChan' =
              IF message # <<>> /\ Len(agentCommandChan) < AgentChanCap
              THEN Append(agentCommandChan, message)
              ELSE agentCommandChan
        /\ UNCHANGED <<agentChanClosed, errorChan, rscPc, hscPc, procs, wire>>

\* readServerCommands: ReadString fails, with io.EOF or another error; the
\* deferred close(commandChan) runs
RscFail(eof) ==
    /\ rscPc = "reading"
    /\ rscPc' = "returned"
    /\ errorChan' = IF eof THEN errorChan ELSE Append(errorChan, "readFailed")
    /\ agentChanClosed' = TRUE
    /\ UNCHANGED <<agentCommandChan, hscPc, procs, wire, received>>

\* handleServerCommands, "case command, ok := <-commandChan": a command is
\* handed to a new goroutine, or the channel is closed and drained
HscCommand(readFails) ==
    /\ agentCommandChan # <<>> \/ agentChanClosed
    /\ IF agentCommandChan # <<>>
       THEN /\ agentCommandChan' = Tail(agentCommandChan)
            /\ procs' = Append(procs, processCommand(Head(agentCommandChan),
                                                     readFails))
            /\ UNCHANGED hscPc
       ELSE /\ hscPc' = "returned"
            /\ UNCHANGED <<agentCommandChan, procs>>
    /\ UNCHANGED errorChan

\* handleServerCommands, "case err := <-errorChan"
HscError ==
    /\ errorChan # <<>>
    /\ errorChan' = Tail(errorChan)
    /\ hscPc' = "returned"
    /\ UNCHANGED <<agentCommandChan, procs>>

\* one turn of the select of handleServerCommands
HscSelect(case, readFails) ==
    /\ hscPc = "loop"
    /\ IF case = "command" THEN HscCommand(readFails) ELSE HscError
    /\ UNCHANGED <<agentChanClosed, rscPc, wire, received>>

\* ProcessWrite of a goroutine that goes on to its next write when one fails
ProcessWriteGoesOn(g, written) ==
    /\ g \in 1..Len(procs)
    /\ procs[g] # <<>>
    /\ hscPc = "returned" => ~written
    /\ IF written
       THEN /\ wire' = Append(wire, [by |-> g, lines |-> Head(procs[g])])
            /\ procs' = [procs EXCEPT ![g] = Tail(@)]
       ELSE /\ procs' = [procs EXCEPT ![g] = Tail(@)]
            /\ UNCHANGED wire
    /\ UNCHANGED <<agentCommandChan, agentChanClosed, errorChan, rscPc, hscPc,
                   received>>

\* goroutine g makes its next conn.Write; it returns when the write fails,
\* as every write does once connectToServer has closed the connection
ProcessWrite(g, written) ==
    /\ g \in 1..Len(procs)
    /\ procs[g] # <<>>
    /\ hscPc = "returned" => ~written
    /\ IF written
       THEN /\ wire' = Append(wire, [by |-> g, lines |-> Head(procs[g])])
            /\ procs' = [procs EXCEPT ![g] = Tail(@)]
       ELSE /\ procs' = [procs EXCEPT ![g] = <<>>]
            /\ UNCHANGED wire
    /\ UNCHANGED <<agentCommandChan, agentChanClosed, errorChan, rscPc, hscPc,
                   received>>

(***************************************************************************)
(* SpecAgent: the agent of one connection, sent any commands.              *)
(***************************************************************************)
AgentCommands ==
    { <<"s", "e", "n", "d", " ", "f">>,
      <<"c", "m", "d", " ", "x", "\r">>,
      CaptureScreen,
      <<"\r">> }

AgentMessage ==
    \E line \in AgentCommands :
        /\ received < MaxCommands
        /\ RscMessage(line)
        /\ UNCHANGED <<readerVars, consoleVars, historyVars, streamVars, mainVars>>

AgentReadFail ==
    \E eof \in BOOLEAN :
        /\ RscFail(eof)
        /\ UNCHANGED <<readerVars, consoleVars, historyVars, streamVars, mainVars>>

AgentSelect ==
    \E case \in {"command", "error"}, readFails \in BOOLEAN :
        /\ HscSelect(case, readFails)
        /\ UNCHANGED <<readerVars, consoleVars, historyVars, streamVars, mainVars>>

AgentWrite ==
    \E g \in 1..MaxCommands, written \in BOOLEAN :
        /\ ProcessWrite(g, written)
        /\ UNCHANGED <<readerVars, consoleVars, historyVars, streamVars, mainVars>>

InitAgent == ReaderInit /\ ConsoleInit /\ AgentInit /\ StreamInit /\ MainInit /\ disk = <<>>

NextAgent == AgentMessage \/ AgentReadFail \/ AgentSelect \/ AgentWrite

SpecAgent == InitAgent /\ [][NextAgent]_vars

\* C1: the writes of two response frames never interleave on the connection:
\* between two writes of one goroutine of processCommand there is no write of
\* another.
C1_FramesNeverInterleave ==
    \A i, j, k \in 1..Len(wire) :
        (i < j /\ j < k /\ wire[i].by = wire[k].by) => wire[j].by = wire[i].by

\* Without a second command in flight, a File frame goes out whole
C1_Witness ==
    /\ Len(wire) = 3
    /\ \A i \in 1..3 : wire[i].by = 1
    /\ wire[3].lines = <<FileEndMarker>>



\* what goroutine g has written to the connection so far, write by write
WrittenBy(g, w) == SelectSeq(w, LAMBDA e : e.by = g)

\* C20: once a write of a goroutine of processCommand (a text, File or
\* Screenshot frame) fails, that goroutine writes nothing more: a step of the
\* goroutine that puts nothing on the connection leaves it no write to make,
\* a step that does puts exactly its next write there, once, and a goroutine
\* with no write left never writes again.
C20_NoWriteAfterFailure ==
    [][\A g \in 1..Len(procs) :
          /\ procs'[g] # procs[g]
             => IF WrittenBy(g, wire') = WrittenBy(g, wire)
                THEN procs'[g] = <<>>
                ELSE /\ WrittenBy(g, wire')
                          = Append(WrittenBy(g, wire), [by |-> g, lines |-> Head(procs[g])])
                     /\ procs'[g] = Tail(procs[g])
          /\ procs[g] = <<>>
             => (procs'[g] = <<>> /\ WrittenBy(g, wire') = WrittenBy(g, wire))]_vars

\* a File frame and a Screenshot frame that each stopped after the header:
\* the chunk write failed, and no chunk and no end marker followed
C20_Witness ==
    \E g, h \in 1..Len(procs) :
        /\ procs[g] = <<>> /\ procs[h] = <<>>
        /\ WrittenBy(g, wire) = <<[by |-> g, lines |-> <<FileHeaderLine(<<"f">>, 8)>>]>>
        /\ WrittenBy(h, wire) = <<[by |-> h, lines |-> <<ShotHeaderLine(8)>>]>>



\* C25: when readServerCommands fails with an error that is not the end of
\* the stream, handleServerCommands returns that error: it never returns
\* with the error still unreceived in errorChan (returning nil through the
\* closed command channel).
C25_ReadErrorIsReturned == hscPc = "returned" => errorChan = <<>>

\* readServerCommands has reported a read error and closed the command
\* channel, and handleServerCommands has returned nil by the closed channel,
\* the error left in errorChan
C25_Witness ==
    /\ rscPc = "returned"
    /\ agentChanClosed
    /\ hscPc = "returned"
    /\ errorChan = <<"readFailed">>

(***************************************************************************)
(* SpecAbort: the agent handles commands one after the other and writes    *)
(* their frames, a File frame it aborts after a failed file.Read among     *)
(* them; the console's reader gets the lines in order, with timeouts       *)
(* between lines.                                                          *)
(***************************************************************************)
\* the commands the agent handles in SpecAbort, at most
MaxAbortCommands == 2

AbortCommands ==
    { <<"s", "e", "n", "d", " ", "f">>,
      <<"c", "m", "d", " ", "x">>,
      CaptureScreen }

RECURSIVE WriteChars(_)
\* the characters of one conn.Write: its lines, each with its line break
WriteChars(lines) ==
    IF lines = <<>> THEN <<>>
    ELSE Head(lines) \o <<"\n">> \o WriteChars(Tail(lines))

\* whether every goroutine of processCommand has returned
AgentQuiet == \A g \in 1..Len(procs) : procs[g] = <<>>

\* the agent takes up a command once the one before is done
AbortCommand ==
    \E message \in AbortCommands, readFails \in BOOLEAN :
        /\ Len(procs) < MaxAbortCommands
        /\ AgentQuiet
        /\ readFails => HasPrefix(message, <<"s", "e", "n", "d", " ">>)
        /\ procs' = Append(procs, processCommand(message, readFails))
        /\ UNCHANGED <<readerVars, consoleVars, historyVars, agentCommandChan,
                       agentChanClosed, errorChan, rscPc, hscPc, wire, received,
                       streamVars, mainVars>>

\* the goroutine at work makes its next conn.Write, which succeeds
AbortWrite ==
    \E g \in 1..Len(procs) :
        /\ procs[g] # <<>>
        /\ wire' = Append(wire, [by |-> g, lines |-> Head(procs[g])])
        /\ stream' = stream \o WriteChars(Head(procs[g]))
        /\ procs' = [procs EXCEPT ![g] = Tail(@)]
        /\ UNCHANGED <<readerVars, consoleVars, historyVars, agentCommandChan,
                       agentChanClosed, errorChan, rscPc, hscPc, received,
                       classified, mainVars>>

\* reader.ReadString('\n') returns the next line, and the line is handled
AbortReadLine ==
    \E io \in IoOutcomes :
        LET raw == SubSeq(stream, 1, BeforeBreak)
        IN  /\ Index(stream, "\n") >= 0
            /\ Saves(TrimSpace(raw)) \/ io = "ok"
            /\ HistoryFits(TrimSpace(raw))
            /\ ReadLine(raw, io, now)
            /\ History(raw)
            /\ stream' = SliceFrom(stream, BeforeBreak + 1)
            /\ classified' = Append(classified, TrimSpace(raw))
            /\ UNCHANGED <<consoleVars, agentVars, mainVars>>

\* the deadline passes with nothing of a next line arrived
AbortTimeout ==
    /\ stream = <<>>
    /\ StreamTimeout(0)

InitAbort ==
    ReaderInit /\ ConsoleInit /\ AgentInit /\ StreamInit /\ MainInit /\ disk \in InitialDisks

NextAbort == AbortCommand \/ AbortWrite \/ AbortReadLine \/ AbortTimeout

SpecAbort == InitAbort /\ [][NextAbort]_vars

\* a ReadString that gets no line returns within its deadline of 30 seconds
SpecAbortFair == SpecAbort /\ WF_vars(AbortTimeout)

\* the reader has handled the ERROR line of an aborted File frame
ErrorArrived ==
    \E i \in 1..Len(classified) : HasPrefix(classified[i], ErrorPrefix)

\* the agent has handled all its commands and the reader has got every line
AllDelivered == Len(procs) = MaxAbortCommands /\ AgentQuiet /\ stream = <<>>

\* C21: after the agent has aborted a File frame (an ERROR line and no end
\* marker), the reader's timeouts take it out of ReceivingFile: with the
\* ERROR line handled and nothing more to arrive, it is eventually Idle.
C21_AbortedFrameRecovers ==
    (isReceivingFile /\ ErrorArrived /\ AllDelivered) ~> Idle

\* the File frame was aborted, the text frame of the next command has arrived
\* whole, a timeout has passed, and the reader is still in the aborted frame
\* with the lines "ERROR:x", "ok" and "---END---" counted as its chunks
C21_Witness ==
    /\ isReceivingFile
    /\ AllDelivered
    /\ classified = <<FileHeaderLine(<<"f">>, 8), ErrorPrefix \o <<"x">>, <<>>,
                      <<"o", "k">>, EndMarker>>
    /\ chunkCount = 3
    /\ printed = <<Out("waiting", <<>>)>>

(***************************************************************************)
(* SpecCodec: one File frame whose chunk lines are built by the agent's    *)
(* encoder from any segment, and arrive whole or short of their last       *)
(* character.                                                              *)
(***************************************************************************)
MaxSegLen == 4

MaxCodecChunks == 1

CodecBytes == {0, 255}

\* the segments file.Read hands to the encoder, and the empty one
CodecSegments == UNION {[1..n -> CodecBytes] : n \in 0..MaxSegLen}

CodecName == <<"f">>

\* a line that lost its last character on the way
Truncated(line) == SubSeq(line, 1, Len(line) - 1)

\* the chunk line the encoder builds of segment seg as chunk n
CodecChunk ==
    [n \in 1..MaxCodecChunks |-> [seg \in CodecSegments |-> ChunkLine(n, seg)]]

\* the lines that can arrive next: the header, the chunk numbered after the
\* chunks so far, whole or (when it has a payload) truncated, and the end
CodecLines ==
    {FileHeaderLine(CodecName, MaxSegLen), FileEndMarker}
        \cup IF chunkCount < MaxCodecChunks
             THEN {CodecChunk[chunkCount + 1][seg] : seg \in CodecSegments}
                  \cup {Truncated(CodecChunk[chunkCount + 1][seg]) :
                            seg \in CodecSegments \ {<<>>}}
             ELSE {}

\* one line of the frame arrives and is handled; the file system does not fail
CodecLine ==
    \E raw \in CodecLines :
        /\ isReceivingFile = ~HasPrefix(raw, FileStartPrefix)
        /\ HasPrefix(raw, FileStartPrefix) => frameNo = 0
        /\ HistoryFits(TrimSpace(raw))
        /\ ReadLine(raw, "ok", now)
        /\ History(raw)
        /\ wire' = Append(wire, [by |-> 0, lines |-> <<raw>>])
        /\ UNCHANGED <<consoleVars, agentCommandChan, agentChanClosed, errorChan,
                       rscPc, hscPc, procs, received, streamVars, mainVars>>

InitCodec == ReaderInit /\ ConsoleInit /\ AgentInit /\ StreamInit /\ MainInit /\ disk = <<>>

NextCodec == CodecLine

SpecCodec == InitCodec /\ [][NextCodec]_vars

\* whether line is among the lines that have arrived
Arrived(line) == \E i \in 1..Len(wire) : wire[i].lines = <<line>>

\* whether this step handles line
Arrives(line) == wire' = Append(wire, [by |-> 0, lines |-> <<line>>])

\* what padding a payload short of its last character decodes to: the whole
\* segment when the character lost was padding, the segment without its last
\* byte when it was a digit
Kept(seg) == IF Len(seg) % 3 = 0 THEN SubSeq(seg, 1, Len(seg) - 1) ELSE seg

\* C15 as stated: in ReceivingFile a chunk line whose payload lost its last
\* character is a decode error: errorCount goes up by one and the buffer and
\* totalBytes stay as they were.
C15_TruncatedChunkIsError ==
    [][(isReceivingFile /\ chunkCount < MaxCodecChunks)
       => \A seg \in CodecSegments \ {<<>>} :
            Arrives(Truncated(CodecChunk[chunkCount + 1][seg]))
            => /\ errorCount' = errorCount + 1
               /\ fileData' = fileData
               /\ totalBytes' = totalBytes]_vars

\* C15 amended: in ReceivingFile a chunk line whose payload lost its last
\* character is padded and decodes: errorCount stays, and the buffer grows by
\* the segment (the lost character was padding) or by the segment without its
\* last byte (the lost character was a digit).
C15_TruncatedChunkDecodes ==
    [][(isReceivingFile /\ chunkCount < MaxCodecChunks)
       => \A seg \in CodecSegments \ {<<>>} :
            Arrives(Truncated(CodecChunk[chunkCount + 1][seg]))
            => /\ errorCount' = errorCount
               /\ fileData' = fileData \o Kept(seg)
               /\ totalBytes' = totalBytes + Len(Kept(seg))]_vars

\* a truncated chunk of three bytes has arrived and left two bytes
C15_Witness ==
    /\ isReceivingFile /\ chunkCount = 1 /\ errorCount = 0
    /\ Arrived(Truncated(ChunkLine(1, <<255, 255, 255>>)))
    /\ fileData = <<255, 255>>

\* C16: for every segment, the empty one and those of a length that is no
\* multiple of three included, the chunk line the encoder builds, handled in
\* ReceivingFile, appends exactly the segment to the buffer and counts no
\* error.
C16_CodecRoundTrip ==
    [][(isReceivingFile /\ chunkCount < MaxCodecChunks)
       => \A seg \in CodecSegments :
            Arrives(CodecChunk[chunkCount + 1][seg])
            => /\ errorCount' = errorCount
               /\ fileData' = fileData \o seg
               /\ totalBytes' = totalBytes + Len(seg)]_vars

\* a chunk of four bytes has arrived whole and is the buffer
C16_Witness ==
    /\ isReceivingFile /\ chunkCount = 1 /\ errorCount = 0
    /\ Arrived(ChunkLine(1, <<255, 0, 0, 255>>))
    /\ fileData = <<255, 0, 0, 255>>

=============================================================================
